---- MODULE Spec2Model ----
(***************************************************************************)
(* The Olist CDC data generator (src/src/utils/data_generator.py): the     *)
(* change-event engine generate_cdc_batch, the populations it mutates and  *)
(* the driver loop that calls it once per entity kind and batch.           *)
(*                                                                         *)
(* Conventions.  random.random() is a roll in hundredths (0..99), so the   *)
(* thresholds 0.6 and 0.9 are 60 and 90.  generate_uuid() is a counter:    *)
(* the n-th call returns n, so every generated id is a positive integer    *)
(* and no two calls agree.  None is 0 and the two malformed ids of         *)
(* introduce_bad_data are negative.                                        *)
(***************************************************************************)
EXTENDS Integers, Sequences, FiniteSets, TLC

VARIABLES
    CDC_CHANGES_RANGE,  \* the configured (min, max) of changes per batch
    entities,           \* the entity kinds the batch loop generates, in order
    existing_records,   \* kind -> population list (customers, products, sellers)
    uuid_count,         \* number of generate_uuid() calls made so far
    pc,                 \* driver position: "batch", "loop", "save", "done", "raised"
    batch,              \* the batch loop's index
    changes_count,      \* the count drawn for this batch
    call,               \* index in entities of the kind being generated / saved
    i,                  \* generate_cdc_batch: the change index
    changes,            \* generate_cdc_batch: the list being built
    operation_roll,     \* generate_cdc_batch: the last roll drawn
    zip_prefix,         \* generate_cdc_batch: the last zip prefix drawn
    returned,           \* kind -> the lists returned so far, one per batch
    files,              \* the sink: set of [path, data]
    probe,              \* sequence numbering on its own (SpecSeq)
    base_time,          \* generate_cdc_batch: base_time, in seconds
    drawn,              \* the counts get_random_count(CDC_CHANGES_RANGE) returned
    cdc_calls,          \* the generate_cdc_batch calls made: their arguments
    bad,                \* introduce_bad_data on its own (SpecBad)
    CUSTOMERS_RANGE, PRODUCTS_RANGE, SELLERS_RANGE, ORDERS_RANGE,
    num_customers, num_products, num_sellers, num_orders,
    geolocations,       \* generate_geolocation()'s list
    customer_ids, product_ids, seller_ids,   \* the id pools of generate_orders
    orders, order_items, order_payments, order_reviews,
    apply_bad_data,     \* generate_orders: its apply_bad_data argument
    initial_records,    \* kind -> the population as the initial load made it
    args,               \* generate_cdc_batches: its arguments
    spark_pc,           \* generate_cdc_batches: "idle", "run", "writing", "done"
    spark_seq,          \* generate_cdc_batches: seq, the running sequence counter
    spark_b,            \* generate_cdc_batches: b, the batch being generated
    step,               \* generate_cdc_batches: position in the batch's statements
    frames,             \* entity -> the DataFrame held: its start_seq, the rows counted
    new_customer_ids,   \* generate_cdc_batches: how many ids the list holds
    order_ids,          \* generate_cdc_batches: how many ids the list holds
    written,            \* the datasets written so far, in the order of writing
    volume,             \* the volume: set of [path, data]
    volume_before,      \* the volume when write_single_csv_to_volume was called
    wcall,              \* write_single_csv_to_volume: its arguments and locals
    wpc                 \* write_single_csv_to_volume: position

\* The configuration and the results of the initial load.
loadVars == <<CUSTOMERS_RANGE, PRODUCTS_RANGE, SELLERS_RANGE, ORDERS_RANGE,
              num_customers, num_products, num_sellers, num_orders,
              geolocations, customer_ids, product_ids, seller_ids,
              orders, order_items, order_payments, order_reviews,
              apply_bad_data, initial_records>>

\* The state of the Spark generator and of its volume.
sparkVars == <<args, spark_pc, spark_seq, spark_b, step, frames, new_customer_ids,
               order_ids, written, volume, volume_before, wcall, wpc>>

vars == <<CDC_CHANGES_RANGE, entities, existing_records, uuid_count, pc, batch,
          changes_count, call, i, changes, operation_roll, zip_prefix,
          returned, files, probe, base_time, drawn, cdc_calls, bad, loadVars,
          sparkVars>>

(***************************************************************************)
(* Bounds of the model.                                                    *)
(***************************************************************************)
MaxInitial == 1      \* largest initial population of a kind
MaxChanges == 2      \* largest CDC_CHANGES_RANGE maximum
MaxBatches == 2      \* number of CDC batches of a run
DriverMaxChanges == 1  \* largest change count when all three kinds run

(***************************************************************************)
(* Program constants.                                                      *)
(***************************************************************************)
STRIDE == 10000
UpdateBelow == 60
InsertBelow == 90
BAD_DATA_RATE == 2
None == 0
INVALID_SHORT == -1
BAD_SELLER == -2
INVALID_STATUS == "INVALID_STATUS_XYZ"
INVALID_PAYMENT_TYPE == "INVALID_PAYMENT_TYPE"

\* None in a timestamp column (the timestamps are isoformat() tuples).
NullTime == <<>>

ORDER_STATUSES ==
    <<"created", "approved", "invoiced", "processing", "shipped", "delivered", "canceled">>

PAYMENT_TYPES == <<"credit_card", "boleto", "voucher", "debit_card">>

CDC_BATCHES == MaxBatches

Kinds == {"customers", "products", "sellers"}

DriverEntities == <<"customers", "products", "sellers">>

BRAZILIAN_STATES == ("SP" :> "Sao Paulo") @@ ("RJ" :> "Rio De Janeiro")

\* The values the random draws range over.
Vocab ==
    [locations |-> {[state |-> "SP", zip_prefix |-> 10000],
                    [state |-> "RJ", zip_prefix |-> 99999]},
     products  |-> {[category |-> "electronics", weight |-> 100],
                    [category |-> "computers", weight |-> 50000]},
     nows      |-> {0},
     bad_rolls |-> [k \in {"customers", "products", "sellers"} |-> {1, 2}]]

\* A single value of each draw, where the values do not matter.
DriverVocab ==
    [locations |-> {[state |-> "SP", zip_prefix |-> 10000]},
     products  |-> {[category |-> "electronics", weight |-> 100]},
     nows      |-> {0},
     bad_rolls |-> [k \in {"customers", "products", "sellers"} |-> {1, 2}]]

Rolls == {0, 59, 60, 89, 90, 99}

BadRolls == {1, 2}

\* datetime.now(), in seconds: at the start of a minute, at the end of one,
\* and at the end of an hour.
Nows == {0, 59, 3599}

\* The clock varies, the other draws do not.
TimeVocab == [DriverVocab EXCEPT !.nows = Nows]

NoDraw == [none |-> TRUE]

(***************************************************************************)
(* Helpers.                                                                *)
(***************************************************************************)
generate_uuid(count) == count + 1

WellFormedId(id) == id >= 1

PkField(entity_type) ==
    CASE entity_type = "customers" -> "customer_id"
      [] entity_type = "products"  -> "product_id"
      [] entity_type = "sellers"   -> "seller_id"

Singular(entity_type) ==
    CASE entity_type = "customers" -> "customer"
      [] entity_type = "products"  -> "product"
      [] entity_type = "sellers"   -> "seller"

UuidsPer(entity_type) == IF entity_type = "customers" THEN 2 ELSE 1

\* random_brazilian_location() / the product attribute draws
Draws(entity_type, V) ==
    IF entity_type = "products" THEN V.products ELSE V.locations

\* Variant: a record literal whose id is always the first one.
NewRecordReusedKey(entity_type, d, count) ==
    CASE entity_type = "customers" ->
           [customer_id              |-> generate_uuid(0),
            customer_unique_id       |-> generate_uuid(count + 1),
            customer_zip_code_prefix |-> d.zip_prefix,
            customer_city            |-> BRAZILIAN_STATES[d.state],
            customer_state           |-> d.state]
      [] entity_type = "products" ->
           [product_id                 |-> generate_uuid(0),
            product_category_name      |-> d.category,
            product_name_lenght        |-> 10,
            product_description_lenght |-> 50,
            product_photos_qty         |-> 1,
            product_weight_g           |-> d.weight,
            product_length_cm          |-> 5,
            product_height_cm          |-> 5,
            product_width_cm           |-> 5]
      [] entity_type = "sellers" ->
           [seller_id              |-> generate_uuid(0),
            seller_zip_code_prefix |-> d.zip_prefix,
            seller_city            |-> BRAZILIAN_STATES[d.state],
            seller_state           |-> d.state]

\* The record literal of an INSERT (and of the initial load).
NewRecord(entity_type, d, count) ==
    CASE entity_type = "customers" ->
           [customer_id              |-> generate_uuid(count),
            customer_unique_id       |-> generate_uuid(count + 1),
            customer_zip_code_prefix |-> d.zip_prefix,
            customer_city            |-> BRAZILIAN_STATES[d.state],
            customer_state           |-> d.state]
      [] entity_type = "products" ->
           [product_id                 |-> generate_uuid(count),
            product_category_name      |-> d.category,
            product_name_lenght        |-> 10,
            product_description_lenght |-> 50,
            product_photos_qty         |-> 1,
            product_weight_g           |-> d.weight,
            product_length_cm          |-> 5,
            product_height_cm          |-> 5,
            product_width_cm           |-> 5]
      [] entity_type = "sellers" ->
           [seller_id              |-> generate_uuid(count),
            seller_zip_code_prefix |-> d.zip_prefix,
            seller_city            |-> BRAZILIAN_STATES[d.state],
            seller_state           |-> d.state]

(***************************************************************************)
(* introduce_bad_data: roll >= rate keeps the record; otherwise exactly    *)
(* the chosen violation is applied.                                        *)
(***************************************************************************)
Violations(entity_type) ==
    CASE entity_type = "customer" -> {"null_id", "short_id", "null_zip"}
      [] entity_type = "product"  -> {"null_id", "negative_weight", "negative_dimension"}
      [] entity_type = "seller"   -> {"null_id", "short_id"}
      [] entity_type = "order"    -> {"null_id", "invalid_status", "null_timestamp"}
      [] entity_type = "order_item"    -> {"negative_price", "negative_freight"}
      [] entity_type = "order_payment" -> {"invalid_type", "negative_value"}
      [] entity_type = "order_review"  -> {"invalid_score_low", "invalid_score_high"}
      [] OTHER -> {"none"}

Dimensions == {"product_length_cm", "product_height_cm", "product_width_cm"}

\* Variants: a customer hit in two fields; a roll equal to the rate hit.
introduce_bad_data_two(record, entity_type, bad_data_rate, roll, violation, dim) ==
    IF roll >= bad_data_rate THEN record
    ELSE IF entity_type = "customer"
         THEN [record EXCEPT !.customer_id = None, !.customer_zip_code_prefix = None]
         ELSE record

introduce_bad_data_closed(record, entity_type, bad_data_rate, roll, violation, dim) ==
    IF roll > bad_data_rate THEN record
    ELSE IF entity_type = "customer"
         THEN [record EXCEPT !.customer_id = None]
         ELSE record

introduce_bad_data(record, entity_type, bad_data_rate, roll, violation, dim) ==
    IF roll >= bad_data_rate THEN record
    ELSE CASE entity_type = "customer" ->
                (CASE violation = "null_id"  -> [record EXCEPT !.customer_id = None]
                   [] violation = "short_id" -> [record EXCEPT !.customer_id = INVALID_SHORT]
                   [] violation = "null_zip" -> [record EXCEPT !.customer_zip_code_prefix = None])
           [] entity_type = "product" ->
                (CASE violation = "null_id"            -> [record EXCEPT !.product_id = None]
                   [] violation = "negative_weight"    -> [record EXCEPT !.product_weight_g = -1]
                   [] violation = "negative_dimension" -> [record EXCEPT ![dim] = -1])
           [] entity_type = "seller" ->
                (CASE violation = "null_id"  -> [record EXCEPT !.seller_id = None]
                   [] violation = "short_id" -> [record EXCEPT !.seller_id = BAD_SELLER])
           [] entity_type = "order" ->
                (CASE violation = "null_id" -> [record EXCEPT !.order_id = None]
                   [] violation = "invalid_status" ->
                        [record EXCEPT !.order_status = INVALID_STATUS]
                   [] violation = "null_timestamp" ->
                        [record EXCEPT !.order_purchase_timestamp = NullTime])
           [] entity_type = "order_item" ->
                (CASE violation = "negative_price"   -> [record EXCEPT !.price = -100]
                   [] violation = "negative_freight" -> [record EXCEPT !.freight_value = -100])
           [] entity_type = "order_payment" ->
                (CASE violation = "invalid_type" ->
                        [record EXCEPT !.payment_type = INVALID_PAYMENT_TYPE]
                   [] violation = "negative_value" ->
                        [record EXCEPT !.payment_value = -100])
           [] entity_type = "order_review" ->
                (CASE violation = "invalid_score_low"  -> [record EXCEPT !.review_score = 0]
                   [] violation = "invalid_score_high" -> [record EXCEPT !.review_score = 6])
           [] OTHER -> record

\* Every outcome of introduce_bad_data on one fresh record.
BadOutcomes(record, entity_type, rolls) ==
    {introduce_bad_data(record, entity_type, BAD_DATA_RATE, r, v, dim) :
        r \in rolls, v \in Violations(entity_type),
        dim \in IF entity_type = "product" THEN Dimensions ELSE {"product_length_cm"}}

(***************************************************************************)
(* generate_customers / generate_products / generate_sellers: the set of   *)
(* <<list, uuid count>> results for the given count.                       *)
(***************************************************************************)
RECURSIVE GenerateEntities(_, _, _, _)
GenerateEntities(entity_type, count, V, start) ==
    IF count = 0 THEN {<<(<<>>), start>>}
    ELSE UNION {
           {<<Append(prev[1], rec), prev[2] + UuidsPer(entity_type)>> :
               rec \in UNION {BadOutcomes(NewRecord(entity_type, d, prev[2]),
                                          Singular(entity_type),
                                          V.bad_rolls[entity_type]) :
                              d \in Draws(entity_type, V)}} :
           prev \in GenerateEntities(entity_type, count - 1, V, start)}

(***************************************************************************)
(* generate_cdc_batch, one pass of its loop body.                          *)
(***************************************************************************)
\* Variants of the numbering with one term wrong.
SequenceNumberNoIndex(batch_num, idx) == batch_num * STRIDE

SequenceNumberShortStride(batch_num, idx) == batch_num * 1000 + idx

SequenceNumberNoBase(batch_num, idx) == idx

SequenceNumberOneBased(batch_num, idx) == batch_num * STRIDE + idx + 1

SequenceNumber(batch_num, idx) == batch_num * STRIDE + idx

\* Variants of the decision: closed thresholds; no look at the population.
DecideOperationClosed(roll, existing) ==
    IF roll <= UpdateBelow /\ existing # <<>> THEN "UPDATE"
    ELSE IF roll <= InsertBelow THEN "INSERT"
    ELSE IF existing # <<>> THEN "DELETE"
    ELSE "continue"

DecideOperationUnguarded(roll, existing) ==
    IF roll < UpdateBelow THEN "UPDATE"
    ELSE IF roll < InsertBelow THEN "INSERT"
    ELSE "DELETE"

\* Variant: the DELETE guard the wrong way round.
DecideOperationInverted(roll, existing) ==
    IF roll < UpdateBelow /\ existing # <<>> THEN "UPDATE"
    ELSE IF roll < InsertBelow THEN "INSERT"
    ELSE IF existing = <<>> THEN "DELETE"
    ELSE "continue"

DecideOperation(roll, existing) ==
    IF roll < UpdateBelow /\ existing # <<>> THEN "UPDATE"
    ELSE IF roll < InsertBelow THEN "INSERT"
    ELSE IF existing # <<>> THEN "DELETE"
    ELSE "continue"

\* Variant: an update that also regenerates customer_unique_id.
ApplyUpdateNewUniqueId(entity_type, record, d) ==
    CASE entity_type = "customers" ->
           [record EXCEPT !.customer_city = BRAZILIAN_STATES[d.state],
                          !.customer_state = d.state,
                          !.customer_zip_code_prefix = d.zip_prefix,
                          !.customer_unique_id = generate_uuid(@)]
      [] entity_type = "products" ->
           [record EXCEPT !.product_category_name = d.category,
                          !.product_weight_g = d.weight]
      [] entity_type = "sellers" ->
           [record EXCEPT !.seller_city = BRAZILIAN_STATES[d.state],
                          !.seller_state = d.state]

\* Variant: an update that gives its copy a key of its own.
ApplyUpdateFreshKey(entity_type, record, d) ==
    CASE entity_type = "customers" ->
           [record EXCEPT !.customer_city = BRAZILIAN_STATES[d.state],
                          !.customer_state = d.state,
                          !.customer_zip_code_prefix = d.zip_prefix,
                          !.customer_id = @ + STRIDE]
      [] entity_type = "products" ->
           [record EXCEPT !.product_category_name = d.category,
                          !.product_weight_g = d.weight,
                          !.product_id = @ + STRIDE]
      [] entity_type = "sellers" ->
           [record EXCEPT !.seller_city = BRAZILIAN_STATES[d.state],
                          !.seller_state = d.state,
                          !.seller_id = @ + STRIDE]

\* The "Apply changes for UPDATE operations" block.
ApplyUpdate(entity_type, record, d) ==
    CASE entity_type = "customers" ->
           [record EXCEPT !.customer_city = BRAZILIAN_STATES[d.state],
                          !.customer_state = d.state,
                          !.customer_zip_code_prefix = d.zip_prefix]
      [] entity_type = "products" ->
           [record EXCEPT !.product_category_name = d.category,
                          !.product_weight_g = d.weight]
      [] entity_type = "sellers" ->
           [record EXCEPT !.seller_city = BRAZILIAN_STATES[d.state],
                          !.seller_state = d.state]

\* datetime.isoformat(): the date and the hour, minute and second fields.
\* Strings of this form compare as these tuples do, field by field.
isoformat(t) == <<t \div 86400, (t \div 3600) % 24, (t \div 60) % 60, t % 60>>

\* Variant: every change of a batch at the base time.
ChangeTimeNoIndex(base, idx) == base

\* change_time = base_time + timedelta(seconds=i)
ChangeTime(base, idx) == base + idx

\* base_time = datetime.now() + timedelta(hours=batch_num)
BaseTime(now, batch_num) == now + 3600 * batch_num

ChangeRecord(sequence_number, operation, change_time, record) ==
    record @@ [sequence_number  |-> sequence_number,
               operation        |-> operation,
               change_timestamp |-> isoformat(change_time)]

\* Variant: an INSERT that is emitted but not appended.
PopulationAfterNoAppend(existing, operation, record) == existing

\* Variant: a DELETE that takes its record out of the population.
PopulationAfterPruned(existing, operation, record) ==
    CASE operation = "INSERT" -> Append(existing, record)
      [] operation = "DELETE" -> SelectSeq(existing, LAMBDA r : r # record)
      [] OTHER -> existing

\* What the population becomes when `operation` is carried out.
PopulationAfter(existing, operation, record) ==
    IF operation = "INSERT" THEN Append(existing, record) ELSE existing

\* random.choice(seq) raises IndexError on an empty list.
ChoiceRaises(existing) == existing = <<>>

\* The loop body for change index idx: the new population, the events
\* appended to changes (none on `continue`), the uuid count, and whether
\* the pass raised instead.
CdcChange(existing, entity_type, batch_num, idx, base, operation, pick, d, count) ==
    LET raised == operation \in {"UPDATE", "DELETE"} /\ ChoiceRaises(existing)
        record ==
            CASE raised -> NoDraw
              [] operation = "UPDATE" -> ApplyUpdate(entity_type, existing[pick], d)
              [] operation = "INSERT" -> NewRecord(entity_type, d, count)
              [] operation = "DELETE" -> existing[pick]
              [] OTHER -> NoDraw
    IN  [raised |-> raised,
         existing_records |-> IF raised THEN existing
                              ELSE PopulationAfter(existing, operation, record),
         emitted |-> IF raised \/ operation = "continue" THEN <<>>
                     ELSE <<ChangeRecord(SequenceNumber(batch_num, idx), operation,
                                         ChangeTime(base, idx), record)>>,
         uuid_count |-> IF operation = "INSERT" THEN count + UuidsPer(entity_type)
                        ELSE count]

\* The indices random.choice can return (0 when nothing is chosen).
Picks(operation, existing) ==
    IF operation \in {"UPDATE", "DELETE"} /\ existing # <<>>
    THEN 1..Len(existing) ELSE {0}

StepDraws(operation, entity_type, V) ==
    IF operation \in {"UPDATE", "INSERT"} THEN Draws(entity_type, V) ELSE {NoDraw}

(***************************************************************************)
(* The sink.                                                               *)
(***************************************************************************)
\* A path that forgets the batch number.
CdcPathNoBatch(entity_type, batch_num) == <<"cdc", entity_type, 1>>

CdcPath(entity_type, batch_num) == <<"cdc", entity_type, batch_num + 1>>

\* save_to_csv: nothing for an empty list, otherwise mode("overwrite").
save_to_csv(fs, data, path) ==
    IF data = <<>> THEN fs
    ELSE {f \in fs : f.path # path} \cup {[path |-> path, data |-> data]}

InitialPath(entity) == <<entity, "initial">>

\* What one write of the sink does: it completes, or it raises.
Written == {"written"}
Sinks == {"written", "failed"}

\* A write that raises: save_to_csv catches nothing, and mode("overwrite") has
\* either left what was under its path or already cleared it.
FailedWrite(fs, path) == {fs, {f \in fs : f.path # path}}

(***************************************************************************)
(* generate_geolocation: GeoPerState entries for every state.              *)
(***************************************************************************)
GeoPerState == 1

StateCodes == <<"SP", "RJ">>

generate_geolocation ==
    [j \in 1..Len(StateCodes) * GeoPerState |->
        [geolocation_zip_code_prefix |-> 10000,
         geolocation_lat   |-> -30,
         geolocation_lng   |-> -55,
         geolocation_city  |-> BRAZILIAN_STATES[StateCodes[((j - 1) \div GeoPerState) + 1]],
         geolocation_state |-> StateCodes[((j - 1) \div GeoPerState) + 1]]]

(***************************************************************************)
(* The id pools the driver hands to generate_orders.                       *)
(***************************************************************************)
\* Variant: a pool of every id, null ones too.
IdPoolUnfiltered(records, field) == [j \in 1..Len(records) |-> records[j][field]]

\* [r[field] for r in records if r[field] is not None]
IdPool(records, field) ==
    LET kept == SelectSeq(records, LAMBDA r : r[field] # None)
    IN  [j \in 1..Len(kept) |-> kept[j][field]]

(***************************************************************************)
(* generate_orders, one pass of its loop body.  Money is in cents, so      *)
(* round(x, 2) is rounding to an integer.                                  *)
(***************************************************************************)
\* The draws of one pass.  Bad data hits the records of at most one kind
\* in a pass (hit), and the items of an order share their draws.  The
\* first pass of a call draws from OrderVocab, the later ones from the
\* narrower LaterVocab.
NoHit == [entity_type |-> "none", violation |-> "none"]

OrderVocab ==
    [locations |-> {[state |-> "SP", zip_prefix |-> 10000]},
     products  |-> {[category |-> "electronics", weight |-> 100]},
     nows      |-> {0},
     bad_rolls |-> ("customers" :> {1, 2}) @@ ("products" :> {2}) @@ ("sellers" :> {1, 2}),
     statuses  |-> {1, 2, 5, 6},
     hits      |-> {NoHit,
                    [entity_type |-> "order", violation |-> "null_id"],
                    [entity_type |-> "order", violation |-> "invalid_status"],
                    [entity_type |-> "order_item", violation |-> "negative_price"],
                    [entity_type |-> "order_payment", violation |-> "negative_value"],
                    [entity_type |-> "order_review", violation |-> "invalid_score_low"]},
     counts    |-> {[num_items |-> 1, num_payments |-> 2],
                    [num_items |-> 5, num_payments |-> 3]},
     prices    |-> {[price |-> 1000, freight_value |-> 501]},
     review_rolls |-> {30, 31},
     ties      |-> {0, 1}]

LaterVocab ==
    [OrderVocab EXCEPT
        !.statuses = {1, 6},
        !.hits = {NoHit, [entity_type |-> "order", violation |-> "null_id"]},
        !.counts = {[num_items |-> 1, num_payments |-> 1]},
        !.review_rolls = {31},
        !.ties = {0}]

\* A run without bad data and with one value of every draw.
RunVocab ==
    [locations |-> {[state |-> "SP", zip_prefix |-> 10000]},
     products  |-> {[category |-> "electronics", weight |-> 100]},
     nows      |-> {0},
     bad_rolls |-> [k \in {"customers", "products", "sellers"} |-> {2}],
     statuses  |-> {6},
     hits      |-> {NoHit},
     counts    |-> {[num_items |-> 1, num_payments |-> 1]},
     prices    |-> {[price |-> 1000, freight_value |-> 501]},
     review_rolls |-> {31},
     ties      |-> {0}]

OrderDraws(V, customers_pool, products_pool, sellers_pool) ==
    [customer : IF customers_pool = <<>> THEN {0} ELSE DOMAIN customers_pool,
     product  : IF products_pool = <<>> THEN {0} ELSE DOMAIN products_pool,
     seller   : IF sellers_pool = <<>> THEN {0} ELSE DOMAIN sellers_pool,
     status   : V.statuses,
     hit      : V.hits,
     counts   : V.counts,
     prices   : V.prices,
     review_roll : V.review_rolls,
     tie      : V.ties]

\* introduce_bad_data(record, entity_type) under the pass's hit.
Corrupt(record, entity_type, hit) ==
    introduce_bad_data(record, entity_type, BAD_DATA_RATE,
                       IF hit.entity_type = entity_type THEN 1 ELSE BAD_DATA_RATE,
                       hit.violation, "product_length_cm")

\* Variants: dates that do not look at the status.
OrderRecordAlwaysApproved(order_id, customer_id, status, purchase_time) ==
    [order_id                      |-> order_id,
     customer_id                   |-> customer_id,
     order_status                  |-> status,
     order_purchase_timestamp      |-> isoformat(purchase_time),
     order_approved_at             |-> isoformat(purchase_time + 3600),
     order_delivered_carrier_date  |->
         IF status \in {"shipped", "delivered"}
         THEN isoformat(purchase_time + 86400) ELSE NullTime,
     order_delivered_customer_date |->
         IF status = "delivered" THEN isoformat(purchase_time + 5 * 86400) ELSE NullTime,
     order_estimated_delivery_date |-> isoformat(purchase_time + 7 * 86400)]

\* The order literal: the dates that depend on the status.
OrderRecord(order_id, customer_id, status, purchase_time) ==
    [order_id                      |-> order_id,
     customer_id                   |-> customer_id,
     order_status                  |-> status,
     order_purchase_timestamp      |-> isoformat(purchase_time),
     order_approved_at             |->
         IF status # "created" THEN isoformat(purchase_time + 3600) ELSE NullTime,
     order_delivered_carrier_date  |->
         IF status \in {"shipped", "delivered"}
         THEN isoformat(purchase_time + 86400) ELSE NullTime,
     order_delivered_customer_date |->
         IF status = "delivered" THEN isoformat(purchase_time + 5 * 86400) ELSE NullTime,
     order_estimated_delivery_date |-> isoformat(purchase_time + 7 * 86400)]

\* Items numbered from zero.
ItemRecordZeroBased(order_id, item_id, product_id, seller_id, purchase_time, prices) ==
    [order_id            |-> order_id,
     order_item_id       |-> item_id - 1,
     product_id          |-> product_id,
     seller_id           |-> seller_id,
     shipping_limit_date |-> isoformat(purchase_time + 86400),
     price               |-> prices.price,
     freight_value       |-> prices.freight_value]

ItemRecord(order_id, item_id, product_id, seller_id, purchase_time, prices) ==
    [order_id            |-> order_id,
     order_item_id       |-> item_id,
     product_id          |-> product_id,
     seller_id           |-> seller_id,
     shipping_limit_date |-> isoformat(purchase_time + 86400),
     price               |-> prices.price,
     freight_value       |-> prices.freight_value]

\* sum(item['price'] + item['freight_value'] for item in order_items
\*     if item['order_id'] == order_id)
RECURSIVE TotalValue(_, _)
TotalValue(items, order_id) ==
    IF items = <<>> THEN 0
    ELSE (IF Head(items).order_id = order_id
          THEN Head(items).price + Head(items).freight_value ELSE 0)
         + TotalValue(Tail(items), order_id)

\* A division that drops the fraction of a cent.
Round2Down(total, n, tie) == total \div n

\* round(total / n, 2): the nearest cent; at an exact half cent the float
\* decides, so either neighbour (tie picks).
Round2(total, n, tie) ==
    LET q == (2 * total + n) \div (2 * n)
    IN  IF (2 * total + n) % (2 * n) = 0 THEN q - tie ELSE q

\* A payment that names the id drawn after its order's.
PaymentRecordOtherOrder(order_id, seq, total_value, num_payments, tie) ==
    [order_id             |-> order_id + 1,
     payment_sequential   |-> seq,
     payment_type         |-> PAYMENT_TYPES[1],
     payment_installments |-> 1,
     payment_value        |-> Round2(total_value, num_payments, tie)]

PaymentRecord(order_id, seq, total_value, num_payments, tie) ==
    [order_id             |-> order_id,
     payment_sequential   |-> seq,
     payment_type         |-> PAYMENT_TYPES[1],
     payment_installments |-> 1,
     payment_value        |-> Round2(total_value, num_payments, tie)]

ReviewRecord(review_id, order_id, purchase_time) ==
    [review_id               |-> review_id,
     order_id                |-> order_id,
     review_score            |-> 5,
     review_comment_title    |-> "Review Title",
     review_comment_message  |-> None,
     review_creation_date    |-> isoformat(purchase_time + 10 * 86400),
     review_answer_timestamp |-> isoformat(purchase_time + 11 * 86400)]

\* Variants of the review condition: every status; every roll.
ReviewedAnyStatus(status, review_roll) == review_roll > 30

Reviewed(status, review_roll) == status = "delivered" /\ review_roll > 30

\* One pass: the rows appended to the four lists, the uuid count, and
\* whether a random.choice on an empty pool raised instead.
OrderPass(items_so_far, customers_pool, sellers_pool, products_pool, d, count) ==
    LET raised   == customers_pool = <<>> \/ products_pool = <<>> \/ sellers_pool = <<>>
        order_id == generate_uuid(count)
        status   == ORDER_STATUSES[d.status]
        purchase_time == 1
        order    == Corrupt(OrderRecord(order_id, customers_pool[d.customer], status,
                                        purchase_time), "order", d.hit)
        items    == [item_id \in 1..d.counts.num_items |->
                        Corrupt(ItemRecord(order_id, item_id, products_pool[d.product],
                                           sellers_pool[d.seller], purchase_time, d.prices),
                                "order_item", d.hit)]
        total_value == TotalValue(items_so_far \o items, order_id)
        payments == [seq \in 1..d.counts.num_payments |->
                        Corrupt(PaymentRecord(order_id, seq, total_value,
                                              d.counts.num_payments, d.tie),
                                "order_payment", d.hit)]
        reviewed == Reviewed(status, d.review_roll)
        reviews  == IF reviewed
                    THEN <<Corrupt(ReviewRecord(generate_uuid(count + 1), order_id,
                                                purchase_time), "order_review", d.hit)>>
                    ELSE <<>>
    IN  IF raised
        THEN [raised |-> TRUE, orders |-> <<>>, order_items |-> <<>>,
              order_payments |-> <<>>, order_reviews |-> <<>>, uuid_count |-> count + 1]
        ELSE [raised |-> FALSE, orders |-> <<order>>, order_items |-> items,
              order_payments |-> payments, order_reviews |-> reviews,
              uuid_count |-> IF reviewed THEN count + 2 ELSE count + 1]

(***************************************************************************)
(* Initial states.                                                         *)
(***************************************************************************)
InitControl ==
    /\ batch = 0
    /\ changes_count = 0
    /\ call = 1
    /\ i = 0
    /\ changes = <<>>
    /\ operation_roll = 0
    /\ zip_prefix = None
    /\ returned = [k \in Kinds |-> <<>>]
    /\ probe = <<>>
    /\ base_time = 0
    /\ drawn = <<>>
    /\ cdc_calls = <<>>
    /\ bad = <<>>

\* The Spark generator is not running and its volume is empty.
NoSparkRun ==
    /\ args = [num_customers |-> 0, num_orders |-> 0, max_items_per_order |-> 0,
               n_batches |-> 0, update_frac |-> 0]
    /\ spark_pc = "idle"
    /\ spark_seq = 1
    /\ spark_b = 0
    /\ step = 1
    /\ frames = <<>>
    /\ new_customer_ids = 0
    /\ order_ids = 0
    /\ written = <<>>
    /\ volume = {}
    /\ volume_before = {}
    /\ wcall = <<>>
    /\ wpc = "idle"

\* No run of the script: its ranges, counts, pools and order lists are unset.
NoInitialLoad ==
    /\ CUSTOMERS_RANGE = <<0, 0>>
    /\ PRODUCTS_RANGE = <<0, 0>>
    /\ SELLERS_RANGE = <<0, 0>>
    /\ ORDERS_RANGE = <<0, 0>>
    /\ num_customers = 0
    /\ num_products = 0
    /\ num_sellers = 0
    /\ num_orders = 0
    /\ geolocations = <<>>
    /\ customer_ids = <<>>
    /\ product_ids = <<>>
    /\ seller_ids = <<>>
    /\ orders = <<>>
    /\ order_items = <<>>
    /\ order_payments = <<>>
    /\ order_reviews = <<>>
    /\ apply_bad_data = TRUE
    /\ files = {}

\* The engine driven for one entity kind, from any initial population.
Init ==
    /\ NoSparkRun
    /\ InitControl
    /\ NoInitialLoad
    /\ pc = "batch"
    /\ CDC_CHANGES_RANGE = <<1, MaxChanges>>
    /\ \E k \in Kinds, n \in 0..MaxInitial :
         \E g \in GenerateEntities(k, n, DriverVocab, 0) :
            /\ entities = <<k>>
            /\ existing_records = [e \in Kinds |-> IF e = k THEN g[1] ELSE <<>>]
            /\ uuid_count = g[2]
    /\ initial_records = existing_records

(***************************************************************************)
(* The initial load of the script.                                         *)
(***************************************************************************)
\* random.randint(a, b) raises ValueError when a > b.
RangeRaises(range_tuple) == range_tuple[1] > range_tuple[2]

get_random_count(range_tuple) == range_tuple[1]..range_tuple[2]

\* The four get_random_count calls before anything is generated.
DrawCounts ==
    /\ pc = "config"
    /\ IF RangeRaises(CUSTOMERS_RANGE)
       THEN /\ pc' = "raised"
            /\ UNCHANGED <<num_customers, num_products, num_sellers, num_orders>>
       ELSE /\ \E n \in get_random_count(CUSTOMERS_RANGE) : num_customers' = n
            /\ IF RangeRaises(PRODUCTS_RANGE)
               THEN /\ pc' = "raised"
                    /\ UNCHANGED <<num_products, num_sellers, num_orders>>
               ELSE /\ \E n \in get_random_count(PRODUCTS_RANGE) : num_products' = n
                    /\ IF RangeRaises(SELLERS_RANGE)
                       THEN /\ pc' = "raised"
                            /\ UNCHANGED <<num_sellers, num_orders>>
                       ELSE /\ \E n \in get_random_count(SELLERS_RANGE) : num_sellers' = n
                            /\ IF RangeRaises(ORDERS_RANGE)
                               THEN /\ pc' = "raised"
                                    /\ UNCHANGED num_orders
                               ELSE /\ \E n \in get_random_count(ORDERS_RANGE) :
                                          num_orders' = n
                                    /\ pc' = "generate"
    /\ UNCHANGED <<sparkVars, CDC_CHANGES_RANGE, entities, existing_records, uuid_count, batch,
                   changes_count, call, i, changes, operation_roll, zip_prefix,
                   returned, files, probe, base_time, drawn, cdc_calls, bad,
                   apply_bad_data, initial_records, 
                   CUSTOMERS_RANGE, PRODUCTS_RANGE, SELLERS_RANGE, ORDERS_RANGE,
                   geolocations, customer_ids, product_ids, seller_ids,
                   orders, order_items, order_payments, order_reviews>>

\* generate_customers, generate_products, generate_sellers, generate_geolocation.
GenerateBase(V) ==
    /\ pc = "generate"
    /\ \E gc \in GenerateEntities("customers", num_customers, V, uuid_count) :
       \E gp \in GenerateEntities("products", num_products, V, gc[2]) :
       \E gs \in GenerateEntities("sellers", num_sellers, V, gp[2]) :
          /\ existing_records' = [e \in Kinds |->
                 CASE e = "customers" -> gc[1]
                   [] e = "products"  -> gp[1]
                   [] e = "sellers"   -> gs[1]]
          /\ uuid_count' = gs[2]
    /\ initial_records' = existing_records'
    /\ geolocations' = generate_geolocation
    /\ pc' = "pools"
    /\ UNCHANGED <<sparkVars, CDC_CHANGES_RANGE, entities, batch, changes_count, call, i, changes,
                   operation_roll, zip_prefix, returned, files, probe, base_time,
                   drawn, cdc_calls, bad,
                   apply_bad_data, 
                   CUSTOMERS_RANGE, PRODUCTS_RANGE, SELLERS_RANGE, ORDERS_RANGE,
                   num_customers, num_products, num_sellers, num_orders,
                   customer_ids, product_ids, seller_ids,
                   orders, order_items, order_payments, order_reviews>>

BuildPools ==
    /\ pc = "pools"
    /\ customer_ids' = IdPool(existing_records["customers"], "customer_id")
    /\ product_ids' = IdPool(existing_records["products"], "product_id")
    /\ seller_ids' = IdPool(existing_records["sellers"], "seller_id")
    /\ pc' = "orders"
    /\ UNCHANGED <<sparkVars, CDC_CHANGES_RANGE, entities, existing_records, uuid_count, batch,
                   changes_count, call, i, changes, operation_roll, zip_prefix,
                   returned, files, probe, base_time, drawn, cdc_calls, bad,
                   apply_bad_data, initial_records, 
                   CUSTOMERS_RANGE, PRODUCTS_RANGE, SELLERS_RANGE, ORDERS_RANGE,
                   num_customers, num_products, num_sellers, num_orders,
                   geolocations, orders, order_items, order_payments, order_reviews>>

\* if apply_bad_data: ... -- without it no record of a pass is hit.
Applied(V, apply) == IF apply THEN V ELSE [V EXCEPT !.hits = {NoHit}]

\* generate_orders: one pass of `for _ in range(count)`.
GenerateOrder(V, W) ==
    /\ pc = "orders"
    /\ Len(orders) < num_orders
    /\ \E d \in OrderDraws(Applied(IF orders = <<>> THEN V ELSE W, apply_bad_data),
                            customer_ids, product_ids, seller_ids) :
          LET res == OrderPass(order_items, customer_ids, seller_ids, product_ids,
                               d, uuid_count)
          IN  /\ orders' = orders \o res.orders
              /\ order_items' = order_items \o res.order_items
              /\ order_payments' = order_payments \o res.order_payments
              /\ order_reviews' = order_reviews \o res.order_reviews
              /\ uuid_count' = res.uuid_count
              /\ pc' = IF res.raised THEN "raised" ELSE pc
    /\ UNCHANGED <<sparkVars, CDC_CHANGES_RANGE, entities, existing_records, batch,
                   changes_count, call, i, changes, operation_roll, zip_prefix,
                   returned, files, probe, base_time, drawn, cdc_calls, bad,
                   apply_bad_data, initial_records, 
                   CUSTOMERS_RANGE, PRODUCTS_RANGE, SELLERS_RANGE, ORDERS_RANGE,
                   num_customers, num_products, num_sellers, num_orders,
                   geolocations, customer_ids, product_ids, seller_ids>>

\* generate_orders returns; the driver has the four lists.
ReturnOrders ==
    /\ pc = "orders"
    /\ Len(orders) = num_orders
    /\ pc' = "save_initial"
    /\ UNCHANGED <<CDC_CHANGES_RANGE, entities, existing_records, uuid_count, batch,
                   changes_count, call, i, changes, operation_roll, zip_prefix,
                   returned, files, probe, base_time, drawn, cdc_calls, bad, loadVars, sparkVars>>

\* The eight lists of the initial load with their paths, in the script's order.
InitialOutputs(populations, geo, os, items, payments, reviews) ==
    <<[data |-> populations["customers"], path |-> InitialPath("customers")],
      [data |-> populations["products"], path |-> InitialPath("products")],
      [data |-> populations["sellers"], path |-> InitialPath("sellers")],
      [data |-> geo, path |-> InitialPath("geolocation")],
      [data |-> os, path |-> InitialPath("orders")],
      [data |-> items, path |-> InitialPath("order_items")],
      [data |-> payments, path |-> InitialPath("order_payments")],
      [data |-> reviews, path |-> InitialPath("order_reviews")]>>

\* The first n save_to_csv calls of a list of outputs.
RECURSIVE SaveOutputs(_, _, _)
SaveOutputs(fs, outputs, n) ==
    IF n = 0 THEN fs
    ELSE save_to_csv(SaveOutputs(fs, outputs, n - 1), outputs[n].data, outputs[n].path)

\* The eight save_to_csv calls of the initial load.
InitialSaves(fs, populations, geo, os, items, payments, reviews) ==
    LET outputs == InitialOutputs(populations, geo, os, items, payments, reviews)
    IN  SaveOutputs(fs, outputs, Len(outputs))

\* The initial load is saved; a write that raises ends the script after the
\* saves before it.
SaveInitial(S) ==
    /\ pc = "save_initial"
    /\ LET outputs == InitialOutputs(existing_records, geolocations, orders,
                                     order_items, order_payments, order_reviews)
       IN  \/ /\ "written" \in S
              /\ files' = SaveOutputs(files, outputs, Len(outputs))
              /\ pc' = "batch"
           \/ /\ "failed" \in S
              /\ \E n \in DOMAIN outputs :
                    /\ outputs[n].data # <<>>
                    /\ files' \in FailedWrite(SaveOutputs(files, outputs, n - 1),
                                              outputs[n].path)
              /\ pc' = "sink_failed"
    /\ UNCHANGED <<CDC_CHANGES_RANGE, entities, existing_records, uuid_count, batch,
                   changes_count, call, i, changes, operation_roll, zip_prefix,
                   returned, probe, base_time, drawn, cdc_calls, bad, loadVars, sparkVars>>

(***************************************************************************)
(* The batch loop.                                                         *)
(***************************************************************************)
\* The arguments of one generate_cdc_batch call.
CallArgs(entity_type, batch_num, n, existing) ==
    [entity_type |-> entity_type, batch_num |-> batch_num, changes_count |-> n,
     population_size |-> Len(existing)]

StartBatch(V) ==
    /\ pc = "batch"
    /\ batch < CDC_BATCHES
    /\ IF RangeRaises(CDC_CHANGES_RANGE)
       THEN /\ pc' = "raised"
            /\ UNCHANGED <<changes_count, call, i, changes, base_time, drawn, cdc_calls>>
       ELSE /\ \E n \in get_random_count(CDC_CHANGES_RANGE) :
                 /\ changes_count' = n
                 /\ drawn' = Append(drawn, n)
                 /\ cdc_calls' = Append(cdc_calls,
                        CallArgs(entities[1], batch, n, existing_records[entities[1]]))
            /\ \E now \in V.nows : base_time' = BaseTime(now, batch)
            /\ pc' = "loop"
            /\ call' = 1
            /\ i' = 0
            /\ changes' = <<>>
    /\ UNCHANGED <<CDC_CHANGES_RANGE, entities, existing_records, uuid_count, batch,
                   operation_roll, zip_prefix, returned, files, probe, bad, loadVars, sparkVars>>

GenerateChange(V) ==
    /\ pc = "loop"
    /\ i < changes_count
    /\ LET entity_type == entities[call]
           existing == existing_records[entity_type]
       IN \E roll \in Rolls :
            LET operation == DecideOperation(roll, existing) IN
            \E pick \in Picks(operation, existing),
               d \in StepDraws(operation, entity_type, V) :
               LET res == CdcChange(existing, entity_type, batch, i, base_time,
                                    operation, pick, d, uuid_count)
               IN /\ existing_records' =
                        [existing_records EXCEPT ![entity_type] = res.existing_records]
                  /\ changes' = changes \o res.emitted
                  /\ uuid_count' = res.uuid_count
                  /\ operation_roll' = roll
                  /\ zip_prefix' = IF d # NoDraw /\ entity_type # "products"
                                   THEN d.zip_prefix ELSE zip_prefix
                  /\ pc' = IF res.raised THEN "raised" ELSE pc
                  /\ i' = IF res.raised THEN i ELSE i + 1
    /\ UNCHANGED <<CDC_CHANGES_RANGE, entities, batch, changes_count, call,
                   returned, files, probe, base_time, drawn, cdc_calls, bad, loadVars, sparkVars>>

\* Variant: a count of its own for every call.
ReturnChangesRedraw(V) ==
    /\ pc = "loop"
    /\ i = changes_count
    /\ returned' = [returned EXCEPT ![entities[call]] = Append(@, changes)]
    /\ operation_roll' = 0
    /\ zip_prefix' = None
    /\ IF call < Len(entities)
       THEN /\ call' = call + 1
            /\ i' = 0
            /\ changes' = <<>>
            /\ pc' = "loop"
            /\ \E n \in get_random_count(CDC_CHANGES_RANGE) :
                 /\ changes_count' = n
                 /\ drawn' = Append(drawn, n)
                 /\ cdc_calls' = Append(cdc_calls,
                        CallArgs(entities[call + 1], batch, n,
                                 existing_records[entities[call + 1]]))
            /\ \E now \in V.nows : base_time' = BaseTime(now, batch)
       ELSE /\ call' = 1
            /\ pc' = "save"
            /\ base_time' = 0
            /\ UNCHANGED <<i, changes, cdc_calls, changes_count, drawn>>
    /\ UNCHANGED <<CDC_CHANGES_RANGE, entities, existing_records, uuid_count, batch,
                   files, probe, bad, loadVars, sparkVars>>

\* generate_cdc_batch returns; the driver calls it for the next kind with
\* the same changes_count, or goes on to save.
ReturnChanges(V) ==
    /\ pc = "loop"
    /\ i = changes_count
    /\ returned' = [returned EXCEPT ![entities[call]] = Append(@, changes)]
    /\ operation_roll' = 0
    /\ zip_prefix' = None
    /\ IF call < Len(entities)
       THEN /\ call' = call + 1
            /\ i' = 0
            /\ changes' = <<>>
            /\ pc' = "loop"
            /\ cdc_calls' = Append(cdc_calls,
                   CallArgs(entities[call + 1], batch, changes_count,
                            existing_records[entities[call + 1]]))
            /\ \E now \in V.nows : base_time' = BaseTime(now, batch)
       ELSE /\ call' = 1
            /\ pc' = "save"
            /\ base_time' = 0
            /\ UNCHANGED <<i, changes, cdc_calls>>
    /\ UNCHANGED <<CDC_CHANGES_RANGE, entities, existing_records, uuid_count, batch,
                   changes_count, drawn, files, probe, bad, loadVars, sparkVars>>

\* One save_to_csv call of a batch; a write that raises ends the script.
SaveChanges(S) ==
    /\ pc = "save"
    /\ LET entity_type == entities[call]
           data == returned[entity_type][batch + 1]
           path == CdcPath(entity_type, batch)
       IN  \/ /\ "written" \in S \/ data = <<>>
              /\ files' = save_to_csv(files, data, path)
              /\ IF call < Len(entities)
                 THEN /\ call' = call + 1
                      /\ UNCHANGED <<pc, batch>>
                 ELSE /\ call' = 1
                      /\ batch' = batch + 1
                      /\ pc' = "batch"
           \/ /\ "failed" \in S
              /\ data # <<>>
              /\ files' \in FailedWrite(files, path)
              /\ pc' = "sink_failed"
              /\ UNCHANGED <<call, batch>>
    /\ UNCHANGED <<CDC_CHANGES_RANGE, entities, existing_records, uuid_count,
                   changes_count, i, changes, operation_roll, zip_prefix,
                   returned, probe, base_time, drawn, cdc_calls, bad, loadVars, sparkVars>>

Finish ==
    /\ pc = "batch"
    /\ batch = CDC_BATCHES
    /\ pc' = "done"
    /\ UNCHANGED <<CDC_CHANGES_RANGE, entities, existing_records, uuid_count, batch,
                   changes_count, call, i, changes, operation_roll, zip_prefix,
                   returned, files, probe, base_time, drawn, cdc_calls, bad, loadVars, sparkVars>>

Next ==
    \/ StartBatch(Vocab)
    \/ GenerateChange(Vocab)
    \/ ReturnChanges(Vocab)
    \/ SaveChanges(Written)
    \/ Finish

Spec == Init /\ [][Next]_vars

(***************************************************************************)
(* The engine for one kind again, with the clock varying.                  *)
(***************************************************************************)
NextTime ==
    \/ StartBatch(TimeVocab)
    \/ GenerateChange(TimeVocab)
    \/ ReturnChanges(TimeVocab)
    \/ SaveChanges(Written)
    \/ Finish

SpecTime == Init /\ [][NextTime]_vars

(***************************************************************************)
(* The whole driver: the three entity kinds in every batch, populations    *)
(* from the initial load (never empty under the configured ranges), no     *)
(* orders (ORDERS_RANGE = (0, 0)).                                         *)
(***************************************************************************)
InitDriver ==
    /\ NoSparkRun
    /\ InitControl
    /\ pc = "batch"
    /\ CDC_CHANGES_RANGE = <<1, DriverMaxChanges>>
    /\ entities = DriverEntities
    /\ CUSTOMERS_RANGE = <<1, MaxInitial>>
    /\ PRODUCTS_RANGE = <<1, MaxInitial>>
    /\ SELLERS_RANGE = <<1, MaxInitial>>
    /\ ORDERS_RANGE = <<0, 0>>
    /\ num_orders = 0
    /\ orders = <<>>
    /\ order_items = <<>>
    /\ order_payments = <<>>
    /\ order_reviews = <<>>
    /\ geolocations = generate_geolocation
    /\ \E nc \in 1..MaxInitial, np \in 1..MaxInitial, ns \in 1..MaxInitial :
         \E gc \in GenerateEntities("customers", nc, DriverVocab, 0) :
         \E gp \in GenerateEntities("products", np, DriverVocab, gc[2]) :
         \E gs \in GenerateEntities("sellers", ns, DriverVocab, gp[2]) :
            /\ num_customers = nc
            /\ num_products = np
            /\ num_sellers = ns
            /\ existing_records = [e \in Kinds |->
                   CASE e = "customers" -> gc[1]
                     [] e = "products"  -> gp[1]
                     [] e = "sellers"   -> gs[1]]
            /\ uuid_count = gs[2]
    /\ initial_records = existing_records
    /\ apply_bad_data = TRUE
    /\ customer_ids = IdPool(existing_records["customers"], "customer_id")
    /\ product_ids = IdPool(existing_records["products"], "product_id")
    /\ seller_ids = IdPool(existing_records["sellers"], "seller_id")
    /\ files = InitialSaves({}, existing_records, geolocations, <<>>, <<>>, <<>>, <<>>)

NextDriver ==
    \/ StartBatch(DriverVocab)
    \/ GenerateChange(DriverVocab)
    \/ ReturnChanges(DriverVocab)
    \/ SaveChanges(Written)
    \/ Finish

SpecDriver == InitDriver /\ [][NextDriver]_vars

(***************************************************************************)
(* Sequence numbering alone, for change counts up to and beyond STRIDE:    *)
(* probe lists, for batch 0, 1, ... in turn, one change index of range(    *)
(* changes_count) with the sequence_number the loop computes there.        *)
(***************************************************************************)
ChangeCounts == {1, 2, STRIDE - 1, STRIDE, STRIDE + 1}

\* The first and last two indices of range(n).
SampledIndices(n) == {idx \in {0, 1, n - 2, n - 1} : 0 <= idx /\ idx < n}

InitSeq ==
    /\ NoSparkRun
    /\ InitControl
    /\ NoInitialLoad
    /\ pc = "batch"
    /\ CDC_CHANGES_RANGE = <<1, MaxChanges>>
    /\ entities = DriverEntities
    /\ existing_records = [e \in Kinds |-> <<>>]
    /\ initial_records = existing_records
    /\ uuid_count = 0

ProbeBatch ==
    /\ Len(probe) <= MaxBatches
    /\ \E n \in ChangeCounts : \E idx \in SampledIndices(n) :
          probe' = Append(probe,
                          [batch_num |-> Len(probe), changes_count |-> n, i |-> idx,
                           sequence_number |-> SequenceNumber(Len(probe), idx)])
    /\ UNCHANGED <<CDC_CHANGES_RANGE, entities, existing_records, uuid_count, pc,
                   batch, changes_count, call, i, changes, operation_roll,
                   zip_prefix, returned, files, base_time, drawn, cdc_calls, bad,
                   loadVars, sparkVars>>

NextSeq == ProbeBatch

SpecSeq == InitSeq /\ [][NextSeq]_vars

(***************************************************************************)
(* The initial load with bad data: counts, populations, pools, orders and  *)
(* the saves.                                                              *)
(***************************************************************************)
MaxOrders == 2

InitOrders ==
    /\ NoSparkRun
    /\ InitControl
    /\ pc = "config"
    /\ CDC_CHANGES_RANGE = <<1, MaxChanges>>
    /\ entities = DriverEntities
    /\ existing_records = [e \in Kinds |-> <<>>]
    /\ initial_records = existing_records
    /\ uuid_count = 0
    /\ CUSTOMERS_RANGE = <<MaxInitial + 1, MaxInitial + 1>>
    /\ PRODUCTS_RANGE = <<1, MaxInitial>>
    /\ SELLERS_RANGE = <<1, MaxInitial>>
    /\ ORDERS_RANGE = <<1, MaxOrders>>
    /\ apply_bad_data \in BOOLEAN
    /\ num_customers = 0
    /\ num_products = 0
    /\ num_sellers = 0
    /\ num_orders = 0
    /\ geolocations = <<>>
    /\ customer_ids = <<>>
    /\ product_ids = <<>>
    /\ seller_ids = <<>>
    /\ orders = <<>>
    /\ order_items = <<>>
    /\ order_payments = <<>>
    /\ order_reviews = <<>>
    /\ files = {}

NextOrders ==
    \/ DrawCounts
    \/ GenerateBase(OrderVocab)
    \/ BuildPools
    \/ GenerateOrder(OrderVocab, LaterVocab)
    \/ ReturnOrders
    \/ SaveInitial(Written)

SpecOrders == InitOrders /\ [][NextOrders]_vars

(***************************************************************************)
(* A whole run of the script, from its configuration on: every range is    *)
(* either well-formed or has min > max.                                    *)
(***************************************************************************)
RangeChoices(valid) == {valid, <<1, 0>>}

InitRun ==
    /\ NoSparkRun
    /\ InitControl
    /\ pc = "config"
    /\ entities = DriverEntities
    /\ existing_records = [e \in Kinds |-> <<>>]
    /\ initial_records = existing_records
    /\ uuid_count = 0
    /\ CUSTOMERS_RANGE \in RangeChoices(<<1, MaxInitial>>)
    /\ PRODUCTS_RANGE \in RangeChoices(<<1, MaxInitial>>)
    /\ SELLERS_RANGE \in RangeChoices(<<1, MaxInitial>>)
    /\ ORDERS_RANGE \in RangeChoices(<<1, 1>>)
    /\ CDC_CHANGES_RANGE \in RangeChoices(<<0, DriverMaxChanges>>)
    /\ apply_bad_data = TRUE
    /\ num_customers = 0
    /\ num_products = 0
    /\ num_sellers = 0
    /\ num_orders = 0
    /\ geolocations = <<>>
    /\ customer_ids = <<>>
    /\ product_ids = <<>>
    /\ seller_ids = <<>>
    /\ orders = <<>>
    /\ order_items = <<>>
    /\ order_payments = <<>>
    /\ order_reviews = <<>>
    /\ files = {}

NextRun ==
    \/ DrawCounts
    \/ GenerateBase(RunVocab)
    \/ BuildPools
    \/ GenerateOrder(RunVocab, RunVocab)
    \/ ReturnOrders
    \/ SaveInitial(Sinks)
    \/ StartBatch(RunVocab)
    \/ GenerateChange(RunVocab)
    \/ ReturnChanges(RunVocab)
    \/ SaveChanges(Sinks)
    \/ Finish

SpecRun == InitRun /\ [][NextRun]_vars

(***************************************************************************)
(* introduce_bad_data on its own: bad holds the last call, its arguments   *)
(* and what it returned.                                                   *)
(***************************************************************************)
KnownKinds ==
    {"customer", "product", "seller", "order", "order_item", "order_payment",
     "order_review"}

\* An entity kind the function has no branch for.
UnknownKinds == {"geolocation"}

\* Clean records of a kind, as the generators build them.
CleanRecords(entity_type) ==
    CASE entity_type = "customer" ->
           {NewRecord("customers", d, 0) : d \in Vocab.locations}
      [] entity_type = "product" ->
           {NewRecord("products", d, 0) : d \in Vocab.products}
      [] entity_type = "seller" ->
           {NewRecord("sellers", d, 0) : d \in Vocab.locations}
      [] entity_type = "order" ->
           {OrderRecord(1, 2, ORDER_STATUSES[st], 1) : st \in DOMAIN ORDER_STATUSES}
      [] entity_type = "order_item" ->
           {ItemRecord(1, n, 2, 3, 1, p) : n \in {1, 2}, p \in OrderVocab.prices}
      [] entity_type = "order_payment" ->
           {PaymentRecord(1, n, 1501, n, 0) : n \in {1, 2}}
      [] entity_type = "order_review" ->
           {ReviewRecord(2, 1, 1)}
      [] OTHER -> {generate_geolocation[1]}

\* The records a call is made on: clean ones and ones already hit once.
InputRecords(entity_type) ==
    CleanRecords(entity_type) \cup
    UNION {BadOutcomes(r, entity_type, {0}) : r \in CleanRecords(entity_type)}

\* bad_data_rate in hundredths: 0.0, the configured rate, 1.0.
Rates == {0, BAD_DATA_RATE, 100}

BadDataRolls == {0, 1, 2, 50, 99}

\* The arguments of a call, and the draws it will make.
BadCalls ==
    UNION {[entity_type   : {entity_type},
            record        : InputRecords(entity_type),
            bad_data_rate : Rates,
            roll          : BadDataRolls,
            violation     : Violations(entity_type),
            dim           : IF entity_type = "product" THEN Dimensions
                            ELSE {"product_length_cm"}] :
           entity_type \in KnownKinds \cup UnknownKinds}

InitBad ==
    /\ NoSparkRun
    /\ batch = 0
    /\ changes_count = 0
    /\ call = 1
    /\ i = 0
    /\ changes = <<>>
    /\ operation_roll = 0
    /\ zip_prefix = None
    /\ returned = [k \in Kinds |-> <<>>]
    /\ probe = <<>>
    /\ base_time = 0
    /\ drawn = <<>>
    /\ cdc_calls = <<>>
    /\ NoInitialLoad
    /\ pc = "batch"
    /\ CDC_CHANGES_RANGE = <<1, MaxChanges>>
    /\ entities = DriverEntities
    /\ existing_records = [e \in Kinds |-> <<>>]
    /\ initial_records = existing_records
    /\ uuid_count = 0
    /\ \E c \in BadCalls : bad = <<c>>

\* The call: bad gets the call and what it returned.
CallIntroduceBadData ==
    /\ Len(bad) = 1
    /\ bad' = Append(bad, introduce_bad_data(bad[1].record, bad[1].entity_type,
                                             bad[1].bad_data_rate, bad[1].roll,
                                             bad[1].violation, bad[1].dim))
    /\ UNCHANGED <<CDC_CHANGES_RANGE, entities, existing_records, uuid_count, pc,
                   batch, changes_count, call, i, changes, operation_roll,
                   zip_prefix, returned, files, probe, base_time, drawn, cdc_calls,
                   loadVars, sparkVars>>

NextBad == CallIntroduceBadData

SpecBad == InitBad /\ [][NextBad]_vars


(***************************************************************************)
(* Views of the state used by the properties.                              *)
(***************************************************************************)
\* The lists of entity kind k, batch 0 first: those returned and the one
\* being built.
BatchLists(k) ==
    returned[k] \o (IF pc \in {"loop", "raised"} /\ entities[call] = k
                    THEN <<changes>> ELSE <<>>)

RECURSIVE Flatten(_)
Flatten(lists) ==
    IF lists = <<>> THEN <<>> ELSE Head(lists) \o Flatten(Tail(lists))

\* Every event of kind k so far, in emission order.
Stream(k) == Flatten(BatchLists(k))

Last(seq) == seq[Len(seq)]

\* The pass for one change index has just been made.
StepTaken == pc = "loop" /\ pc' = "loop" /\ call' = call /\ i' = i + 1

\* ... and it appended an event.
Emitted == StepTaken /\ Len(changes') = Len(changes) + 1

\* The event at the end of changes comes from the latest pass.
LatestEmitted ==
    /\ pc = "loop"
    /\ changes # <<>>
    /\ Last(changes).sequence_number = batch * STRIDE + (i - 1)

SameRecord(event, record) == \A f \in DOMAIN record : event[f] = record[f]

(***************************************************************************)
(* C1: the event made at change index i of batch b has sequence_number     *)
(* b*10000 + i, and in every batch list the sequence numbers strictly      *)
(* increase in emission order.                                             *)
(***************************************************************************)
C1_Increasing ==
    \A k \in Kinds : \A b \in DOMAIN BatchLists(k) :
       \A j1, j2 \in DOMAIN BatchLists(k)[b] :
          j1 < j2 => BatchLists(k)[b][j1].sequence_number
                       < BatchLists(k)[b][j2].sequence_number

C1_SequenceNumbers ==
    /\ [][Emitted => Last(changes').sequence_number = batch * 10000 + i]_vars
    /\ []C1_Increasing

C1_Witness ==
    /\ pc = "loop"
    /\ batch = 1
    /\ Len(changes) = 2
    /\ changes[1].sequence_number = 10000
    /\ changes[2].sequence_number = 10001

(***************************************************************************)
(* C2 as claimed: whatever the change count, every sequence number of      *)
(* batch b lies in [b*STRIDE, b*STRIDE + STRIDE) and the numbers of an     *)
(* earlier batch are below those of a later one.                           *)
(***************************************************************************)
InStride(o) ==
    /\ o.batch_num * 10000 <= o.sequence_number
    /\ o.sequence_number < o.batch_num * 10000 + 10000

C2_AnyCount ==
    /\ \A j \in DOMAIN probe : InStride(probe[j])
    /\ \A j1, j2 \in DOMAIN probe :
          j1 < j2 => probe[j1].sequence_number < probe[j2].sequence_number

(***************************************************************************)
(* C2 amended: the same for batches whose change count is at most STRIDE   *)
(* (10000): their numbers lie in the batch's range and below every number  *)
(* of a later batch.                                                       *)
(***************************************************************************)
C2_UpToStride ==
    /\ \A j \in DOMAIN probe :
          probe[j].changes_count <= 10000 => InStride(probe[j])
    /\ \A j1, j2 \in DOMAIN probe :
          (j1 < j2 /\ probe[j1].changes_count <= 10000)
             => probe[j1].sequence_number < probe[j2].sequence_number

C2_Witness ==
    /\ Len(probe) >= 2
    /\ probe[1].changes_count = 10000
    /\ probe[1].i = 9999
    /\ probe[2].i = 0
    /\ probe[2].sequence_number = 10000

(***************************************************************************)
(* C3 as claimed: over a run no two change events, of any entity kinds,    *)
(* carry the same sequence_number.                                         *)
(***************************************************************************)
Positions == {<<k, p>> : k \in Kinds, p \in 1..(MaxBatches + 1) * (MaxChanges + 1)}

EventAt(x) == Stream(x[1])[x[2]]

C4_OperationByRoll ==
    /\ [][(StepTaken /\ existing_records[entities[call]] # <<>>)
            => /\ Len(changes') = Len(changes) + 1
               /\ Last(changes').operation =
                     (IF operation_roll' < 60 THEN "UPDATE"
                      ELSE IF operation_roll' < 90 THEN "INSERT"
                      ELSE "DELETE")]_vars
    /\ [](\A k \in Kinds : \A p \in DOMAIN Stream(k) :
             Stream(k)[p].operation \in {"INSERT", "UPDATE", "DELETE"})

C4_Witness ==
    /\ LatestEmitted
    /\ Len(changes) = 2
    /\ changes[1].operation = "INSERT"
    /\ changes[2].operation = "DELETE"
    /\ operation_roll = 90

(***************************************************************************)
(* C5: on an empty population the pass never raises; a roll below 0.9      *)
(* (UPDATE or INSERT range) emits an INSERT, and a roll from 0.9 (DELETE)  *)
(* emits nothing and leaves population and changes as they were.           *)
(***************************************************************************)
C5_EmptyPopulation ==
    /\ [][(pc = "loop" /\ i < changes_count /\ i' # i
             /\ existing_records[entities[call]] = <<>>)
            => IF operation_roll' < 90
               THEN /\ Len(changes') = Len(changes) + 1
                    /\ Last(changes').operation = "INSERT"
               ELSE /\ changes' = changes
                    /\ existing_records' = existing_records]_vars
    /\ [](pc # "raised")

C5_Witness ==
    /\ LatestEmitted
    /\ i = 2
    /\ Len(changes) = 1
    /\ changes[1].operation = "INSERT"
    /\ operation_roll = 59
    /\ Len(existing_records[entities[call]]) = 1

(***************************************************************************)
(* C6 as claimed: a batch's sequence numbers are batch*STRIDE,             *)
(* batch*STRIDE + 1, ..., one per emitted event, so a skipped index uses   *)
(* no number.                                                              *)
(***************************************************************************)
C6_NoSlotConsumed ==
    \A k \in Kinds : \A b \in DOMAIN BatchLists(k) :
       \A j \in DOMAIN BatchLists(k)[b] :
          BatchLists(k)[b][j].sequence_number = (b - 1) * 10000 + (j - 1)

(***************************************************************************)
(* C6 amended: a skipped index does use up its number.  The numbers of a   *)
(* batch's events are consecutive, but they start at batch*STRIDE + s      *)
(* with s the number of indices skipped so far (all at the start of the    *)
(* batch), and end at the number of the last index processed.              *)
(***************************************************************************)
C6_ConsecutiveAfterSkips ==
    /\ \A k \in Kinds : \A b \in DOMAIN BatchLists(k) :
          \A j \in DOMAIN BatchLists(k)[b] :
             /\ BatchLists(k)[b][j].sequence_number >= (b - 1) * 10000
             /\ j > 1 => BatchLists(k)[b][j].sequence_number
                            = BatchLists(k)[b][j - 1].sequence_number + 1
    /\ pc = "loop" =>
          \A j \in DOMAIN changes :
             changes[j].sequence_number
                = batch * 10000 + (i - Len(changes)) + (j - 1)

C6_Witness ==
    /\ pc = "loop"
    /\ batch = 0
    /\ i = 2
    /\ Len(changes) = 1
    /\ changes[1].sequence_number = 1

(***************************************************************************)
(* C7: an UPDATE event has the primary key of a population record and,     *)
(* outside the kind's mutable fields (customer: city, state, zip prefix;   *)
(* product: category, weight; seller: city, state, zip prefix), that       *)
(* record's values.                                                        *)
(***************************************************************************)
ClaimedMutable(k) ==
    CASE k = "customers" -> {"customer_city", "customer_state", "customer_zip_code_prefix"}
      [] k = "products"  -> {"product_category_name", "product_weight_g"}
      [] k = "sellers"   -> {"seller_city", "seller_state", "seller_zip_code_prefix"}

UpdateOf(k, event, record) ==
    /\ event[PkField(k)] = record[PkField(k)]
    /\ \A f \in DOMAIN record \ ClaimedMutable(k) : event[f] = record[f]

C7_UpdateKeepsKeyAndFrame ==
    \A k \in Kinds : \A p \in DOMAIN Stream(k) :
       Stream(k)[p].operation = "UPDATE" =>
          \E j \in DOMAIN existing_records[k] :
             UpdateOf(k, Stream(k)[p], existing_records[k][j])

C7_Witness ==
    /\ LatestEmitted
    /\ entities[call] = "customers"
    /\ Last(changes).operation = "UPDATE"
    /\ \E j \in DOMAIN existing_records["customers"] :
          /\ UpdateOf("customers", Last(changes), existing_records["customers"][j])
          /\ Last(changes).customer_state # existing_records["customers"][j].customer_state
          /\ Last(changes).customer_id >= 1

(***************************************************************************)
(* C8: a seller UPDATE takes all three of city, state and zip prefix       *)
(* from the location just drawn, so its zip prefix is the drawn one.       *)
(***************************************************************************)
C8_SellerUpdateRedrawsZip ==
    (LatestEmitted /\ entities[call] = "sellers"
       /\ Last(changes).operation = "UPDATE")
      => Last(changes).seller_zip_code_prefix = zip_prefix

(***************************************************************************)
(* C9: the record of every INSERT event is in the population from the      *)
(* pass that emitted it onwards, where every later pass draws from; and    *)
(* the change indices of a call are processed in increasing order.         *)
(***************************************************************************)
C9_Inserted ==
    \A k \in Kinds : \A p \in DOMAIN Stream(k) :
       Stream(k)[p].operation = "INSERT" =>
          \E j \in DOMAIN existing_records[k] :
             SameRecord(Stream(k)[p], existing_records[k][j])

C9_InsertVisibleLater ==
    /\ []C9_Inserted
    /\ [][(pc = "loop" /\ pc' = "loop" /\ call' = call /\ i' # i) => i' = i + 1]_vars

C9_Witness ==
    /\ LatestEmitted
    /\ batch = 1
    /\ existing_records[entities[call]] # <<>>
    /\ Len(returned[entities[call]][1]) = 2
    /\ returned[entities[call]][1][1].operation = "INSERT"
    /\ returned[entities[call]][1][2].operation = "UPDATE"
    /\ Last(changes).operation = "DELETE"
    /\ \A e \in {returned[entities[call]][1][2], Last(changes)} :
          e[PkField(entities[call])]
             = returned[entities[call]][1][1][PkField(entities[call])]
    /\ existing_records[entities[call]][1][PkField(entities[call])]
          # Last(changes)[PkField(entities[call])]

(***************************************************************************)
(* C10: in the event stream of a kind, no event for a key follows a        *)
(* DELETE event for that key (keys that are generated ids; a null or       *)
(* malformed key names no one record).                                     *)
(***************************************************************************)
C10_NothingAfterDelete ==
    \A k \in Kinds : \A p1, p2 \in DOMAIN Stream(k) :
       (p1 < p2 /\ Stream(k)[p1].operation = "DELETE"
          /\ WellFormedId(Stream(k)[p1][PkField(k)]))
          => Stream(k)[p2][PkField(k)] # Stream(k)[p1][PkField(k)]

(***************************************************************************)
(* C11: a call generate_cdc_batch(population, kind, b, n) returns at most  *)
(* n events, and exactly n when the population it was called with is not   *)
(* empty.                                                                  *)
(***************************************************************************)
C11_AtMostExactly ==
    \A j \in DOMAIN cdc_calls :
       LET c == cdc_calls[j] IN
       c.batch_num + 1 <= Len(returned[c.entity_type]) =>
          /\ Len(returned[c.entity_type][c.batch_num + 1]) <= c.changes_count
          /\ c.population_size > 0 =>
                Len(returned[c.entity_type][c.batch_num + 1]) = c.changes_count

C11_Witness ==
    /\ pc = "done"
    /\ Len(cdc_calls) = 2
    /\ cdc_calls[1].population_size = 0
    /\ cdc_calls[1].changes_count = 2
    /\ Len(returned[entities[1]][1]) = 1
    /\ cdc_calls[2].population_size = 1
    /\ cdc_calls[2].changes_count = 2
    /\ Len(returned[entities[1]][2]) = 2

(***************************************************************************)
(* C12: the event made at change index i of a call has change_timestamp    *)
(* base_time + i seconds, base_time being the clock at the start of the    *)
(* call plus batch_index hours; so of two events of one batch list the     *)
(* one with the smaller sequence_number has the strictly earlier           *)
(* change_timestamp.                                                       *)
(***************************************************************************)
\* The order of isoformat() strings.
RECURSIVE Earlier(_, _)
Earlier(a, b) ==
    /\ a # <<>>
    /\ b # <<>>
    /\ \/ Head(a) < Head(b)
       \/ Head(a) = Head(b) /\ Earlier(Tail(a), Tail(b))

C12_Timestamps ==
    /\ pc = "loop" =>
          /\ \E now \in Nows : base_time = now + 3600 * batch
          /\ \A j \in DOMAIN changes :
                changes[j].change_timestamp
                   = isoformat(base_time + (changes[j].sequence_number - batch * 10000))
    /\ \A k \in Kinds : \A b \in DOMAIN BatchLists(k) :
          \A j1, j2 \in DOMAIN BatchLists(k)[b] :
             BatchLists(k)[b][j1].sequence_number < BatchLists(k)[b][j2].sequence_number
                => Earlier(BatchLists(k)[b][j1].change_timestamp,
                           BatchLists(k)[b][j2].change_timestamp)

C12_Witness ==
    /\ pc = "loop"
    /\ batch = 1
    /\ base_time = 7199
    /\ Len(changes) = 2
    /\ changes[1].change_timestamp = <<0, 1, 59, 59>>
    /\ changes[2].change_timestamp = <<0, 2, 0, 0>>
    /\ Len(returned[entities[1]][1]) = 2
    /\ returned[entities[1]][1][1].change_timestamp = <<0, 0, 0, 59>>
    /\ returned[entities[1]][1][2].change_timestamp = <<0, 0, 1, 0>>

(***************************************************************************)
(* C13: introduce_bad_data with rate 1.0 on a clean record of a known      *)
(* entity kind returns the record with exactly one field changed.          *)
(***************************************************************************)
Differing(before, after) == {f \in DOMAIN before : after[f] # before[f]}

C13_ExactlyOneField ==
    (/\ Len(bad) = 2
     /\ bad[1].bad_data_rate = 100
     /\ bad[1].entity_type \in KnownKinds
     /\ bad[1].record \in CleanRecords(bad[1].entity_type))
       => /\ DOMAIN bad[2] = DOMAIN bad[1].record
          /\ Cardinality(Differing(bad[1].record, bad[2])) = 1

C13_Witness ==
    /\ Len(bad) = 2
    /\ bad[1].bad_data_rate = 100
    /\ bad[1].roll = 99
    /\ bad[1].entity_type = "order"
    /\ bad[1].record \in CleanRecords("order")
    /\ bad[1].record.order_status = "delivered"
    /\ Differing(bad[1].record, bad[2]) = {"order_status"}
    /\ bad[2].order_status = "INVALID_STATUS_XYZ"

(***************************************************************************)
(* C14: introduce_bad_data with rate 0.0 returns the record with every     *)
(* field as it was, whatever the entity kind and the record.               *)
(***************************************************************************)
C14_RateZeroKeeps ==
    (Len(bad) = 2 /\ bad[1].bad_data_rate = 0) => bad[2] = bad[1].record

C14_Witness ==
    /\ Len(bad) = 2
    /\ bad[1].bad_data_rate = 0
    /\ bad[1].roll = 0
    /\ bad[1].entity_type = "product"
    /\ bad[1].record.product_weight_g = -1
    /\ bad[2] = bad[1].record

(***************************************************************************)
(* C15: introduce_bad_data called with an entity kind that is not one of   *)
(* the seven known kinds, on a record selected for corruption (roll below  *)
(* the rate), raises; it never returns a record.                           *)
(***************************************************************************)
C15_UnknownKindFails ==
    ~ (/\ Len(bad) = 2
       /\ bad[1].entity_type \notin
             {"customer", "product", "seller", "order", "order_item",
              "order_payment", "order_review"}
       /\ bad[1].roll < bad[1].bad_data_rate)

(***************************************************************************)
(* C16: when one of the configured ranges (customers, products, sellers,   *)
(* orders, CDC changes per batch) has min > max, the run generates no      *)
(* record and hands nothing to the sink.                                   *)
(***************************************************************************)
C16_FailsBeforeGeneration ==
    (\E r \in {CUSTOMERS_RANGE, PRODUCTS_RANGE, SELLERS_RANGE, ORDERS_RANGE,
               CDC_CHANGES_RANGE} : r[1] > r[2])
       => /\ \A k \in Kinds : existing_records[k] = <<>>
          /\ geolocations = <<>>
          /\ orders = <<>>
          /\ uuid_count = 0
          /\ files = {}

(***************************************************************************)
(* C17: every order's customer_id is in the customer id pool and every     *)
(* order item's product_id and seller_id are in the product and seller id  *)
(* pools; the pools the driver builds hold only ids of records of the      *)
(* initial populations, and no null id.                                    *)
(***************************************************************************)
InPool(id, pool) == \E j \in DOMAIN pool : pool[j] = id

PoolOf(pool, k) ==
    \A j \in DOMAIN pool :
       /\ pool[j] # None
       /\ \E r \in DOMAIN existing_records[k] :
             existing_records[k][r][PkField(k)] = pool[j]

C17_ForeignKeysFromPools ==
    /\ \A j \in DOMAIN orders : InPool(orders[j].customer_id, customer_ids)
    /\ \A j \in DOMAIN order_items :
          /\ InPool(order_items[j].product_id, product_ids)
          /\ InPool(order_items[j].seller_id, seller_ids)
    /\ pc \notin {"config", "generate", "pools"} =>
          /\ PoolOf(customer_ids, "customers")
          /\ PoolOf(product_ids, "products")
          /\ PoolOf(seller_ids, "sellers")
          /\ \A r \in DOMAIN existing_records["customers"] :
                existing_records["customers"][r].customer_id # None
                   => InPool(existing_records["customers"][r].customer_id, customer_ids)

C17_Witness ==
    /\ pc = "batch"
    /\ Len(orders) = 2
    /\ existing_records["customers"][1].customer_id = None
    /\ Len(customer_ids) = 1
    /\ orders[2].customer_id = existing_records["customers"][2].customer_id
    /\ seller_ids = <<BAD_SELLER>>
    /\ Len(order_items) = 6
    /\ order_items[6].seller_id = BAD_SELLER
    /\ order_items[6].product_id = existing_records["products"][1].product_id

(***************************************************************************)
(* C18 as claimed: in every order row, at any bad-data rate,               *)
(* order_approved_at is non-null only if order_status is not 'created',    *)
(* order_delivered_carrier_date only if it is 'shipped' or 'delivered',    *)
(* order_delivered_customer_date only if it is 'delivered'; and a          *)
(* 'delivered' row has all three.                                          *)
(***************************************************************************)
DatesFollowStatus(o) ==
    /\ o.order_approved_at # NullTime => o.order_status # "created"
    /\ o.order_delivered_carrier_date # NullTime
          => o.order_status \in {"shipped", "delivered"}
    /\ o.order_delivered_customer_date # NullTime => o.order_status = "delivered"
    /\ o.order_status = "delivered" =>
          /\ o.order_approved_at # NullTime
          /\ o.order_delivered_carrier_date # NullTime
          /\ o.order_delivered_customer_date # NullTime

C18_DatesFollowStatus == \A j \in DOMAIN orders : DatesFollowStatus(orders[j])

(***************************************************************************)
(* C18 amended: the same for every order row whose order_status is one of  *)
(* ORDER_STATUSES.  A row whose status bad data replaced by                *)
(* 'INVALID_STATUS_XYZ' keeps the dates of the status drawn for it.        *)
(***************************************************************************)
C18_DatesFollowValidStatus ==
    \A j \in DOMAIN orders :
       (\E st \in DOMAIN ORDER_STATUSES : orders[j].order_status = ORDER_STATUSES[st])
          => DatesFollowStatus(orders[j])

C18_Witness ==
    /\ Len(orders) = 2
    /\ orders[1].order_status = "INVALID_STATUS_XYZ"
    /\ orders[1].order_delivered_carrier_date # NullTime
    /\ orders[1].order_delivered_customer_date = NullTime
    /\ orders[2].order_status = "delivered"
    /\ orders[2].order_delivered_customer_date # NullTime
    /\ orders[2].order_id # None

(***************************************************************************)
(* C19 as claimed: every review row belongs to an order whose row in the   *)
(* returned orders has order_status 'delivered', and no order has two      *)
(* reviews.                                                                *)
(***************************************************************************)
OneReviewPerOrder ==
    \A r1, r2 \in DOMAIN order_reviews :
       r1 # r2 => order_reviews[r1].order_id # order_reviews[r2].order_id

C19_ReviewOnlyDelivered ==
    /\ \A r \in DOMAIN order_reviews :
          \E j \in DOMAIN orders :
             /\ orders[j].order_id = order_reviews[r].order_id
             /\ orders[j].order_status = "delivered"
    /\ OneReviewPerOrder

(***************************************************************************)
(* C19 amended: a review row is produced only for an order for which the   *)
(* status drawn was 'delivered'.  The order's row has the delivery dates   *)
(* of a delivered order; its order_status is 'delivered' unless bad data   *)
(* replaced it by 'INVALID_STATUS_XYZ', and its order_id is the review's   *)
(* unless bad data nulled it.  No order has two reviews.                   *)
(***************************************************************************)
C19_ReviewOnlyDrawnDelivered ==
    /\ \A r \in DOMAIN order_reviews :
          \E j \in DOMAIN orders :
             /\ orders[j].order_id \in {order_reviews[r].order_id, None}
             /\ orders[j].order_status \in {"delivered", "INVALID_STATUS_XYZ"}
             /\ orders[j].order_delivered_customer_date # NullTime
             /\ orders[j].order_id = None => orders[j].order_status = "delivered"
    /\ OneReviewPerOrder
    /\ Len(order_reviews) <= Len(orders)

C19_Witness ==
    /\ Len(orders) = 2
    /\ Len(order_reviews) = 2
    /\ orders[1].order_status = "INVALID_STATUS_XYZ"
    /\ orders[1].order_id = order_reviews[1].order_id
    /\ orders[2].order_id = None
    /\ orders[2].order_status = "delivered"
    /\ \A j \in DOMAIN orders : orders[j].order_id # order_reviews[2].order_id

(***************************************************************************)
(* C20 as claimed: in every batch the driver calls the engine once for     *)
(* each of customers, products, sellers, and the change count of each      *)
(* call is a draw of its own from the configured range.                    *)
(***************************************************************************)
OncePerKind ==
    /\ \A j \in DOMAIN cdc_calls :
          /\ cdc_calls[j].entity_type = DriverEntities[((j - 1) % 3) + 1]
          /\ cdc_calls[j].batch_num = (j - 1) \div 3
    /\ pc \in {"batch", "done"} => Len(cdc_calls) = 3 * batch
    /\ pc = "save" => Len(cdc_calls) = 3 * (batch + 1)

C20_CountPerCall ==
    /\ OncePerKind
    /\ Len(drawn) = Len(cdc_calls)

(***************************************************************************)
(* C20 amended: in every batch the driver calls the engine once for each   *)
(* of customers, products, sellers, and the three calls get the same       *)
(* change count, the one drawn for the batch.                              *)
(***************************************************************************)
C20_OneCountPerBatch ==
    /\ OncePerKind
    /\ pc \in {"loop", "save"} => Len(drawn) = batch + 1
    /\ pc \in {"batch", "done"} => Len(drawn) = batch
    /\ \A j \in DOMAIN cdc_calls :
          /\ cdc_calls[j].batch_num + 1 <= Len(drawn)
          /\ cdc_calls[j].changes_count = drawn[cdc_calls[j].batch_num + 1]

C20_Witness ==
    /\ pc = "done"
    /\ drawn = <<1, 0>>
    /\ Len(cdc_calls) = 6
    /\ \A j \in 1..3 : cdc_calls[j].changes_count = 1
    /\ \A j \in 4..6 : cdc_calls[j].changes_count = 0
    /\ \A k \in Kinds : Len(returned[k][1]) = 1 /\ returned[k][2] = <<>>

(***************************************************************************)
(* C21: the sink.                                                          *)
(***************************************************************************)
\* The save of entity kind number idx in batch b has completed.
Saved(idx, b) ==
    \/ b < batch
    \/ b = batch /\ pc \in {"save", "sink_failed"} /\ idx < call

\* C21: every (entity kind, batch number) list is written under a path of its
\* own: whatever a later write does, completing or raising, the output of every
\* batch saved before it in the run is still in place as it was written; and
\* once a write has raised the script takes no further step, so no write is
\* tried again.
C21_BatchesKept ==
    /\ \A idx \in DOMAIN entities : \A b \in 0..(CDC_BATCHES - 1) :
          (Saved(idx, b) /\ returned[entities[idx]][b + 1] # <<>>)
              => [path |-> CdcPath(entities[idx], b),
                  data |-> returned[entities[idx]][b + 1]] \in files
    /\ \A f, g \in files : f.path = g.path => f = g
    /\ pc = "sink_failed" => ~ENABLED NextRun

\* A write of the second batch raised after the first batch and a list of the
\* second were saved.
C21_Witness ==
    /\ pc = "sink_failed"
    /\ batch = 1
    /\ call = 2
    /\ \A idx \in DOMAIN entities : returned[entities[idx]][1] # <<>>
    /\ returned[entities[1]][2] # <<>>
    /\ returned[entities[2]][2] # <<>>

(***************************************************************************)
(* C22 as claimed: at any bad-data rate, every item, payment and review    *)
(* row carries the order_id of some row of the returned orders.            *)
(***************************************************************************)
OrderIds == {orders[j].order_id : j \in DOMAIN orders}

\* The order_id values of the item, payment and review rows.
ChildOrderIds ==
    {order_items[j].order_id : j \in DOMAIN order_items}
       \cup {order_payments[j].order_id : j \in DOMAIN order_payments}
       \cup {order_reviews[j].order_id : j \in DOMAIN order_reviews}

C22_OrderIdsOfOrders == ChildOrderIds \subseteq OrderIds

(***************************************************************************)
(* C22 amended: every item, payment and review row carries a generated,    *)
(* non-null order_id.  It is the order_id of a row of the returned orders  *)
(* unless bad data nulled that order row's order_id after the id was       *)
(* drawn: the ids carried by item, payment or review rows and by no order  *)
(* row are exactly as many as the order rows whose order_id is None.       *)
(***************************************************************************)
NullIdOrders == {j \in DOMAIN orders : orders[j].order_id = None}

C22_OrderIdsOfDrawnOrders ==
    /\ \A id \in ChildOrderIds : WellFormedId(id)
    /\ Cardinality(ChildOrderIds \ OrderIds) = Cardinality(NullIdOrders)
    /\ apply_bad_data = FALSE => ChildOrderIds \subseteq OrderIds

\* Two orders: the first lost its order_id and its rows point at no order,
\* the second kept it.
C22_Witness ==
    /\ Len(orders) = 2
    /\ orders[1].order_id = None
    /\ orders[2].order_id # None
    /\ order_items[1].order_id \notin OrderIds
    /\ order_payments[1].order_id = order_items[1].order_id
    /\ \E r \in DOMAIN order_reviews : order_reviews[r].order_id = order_items[1].order_id
    /\ \E j \in DOMAIN order_items : order_items[j].order_id = orders[2].order_id
    /\ \E j \in DOMAIN order_payments : order_payments[j].order_id = orders[2].order_id

(***************************************************************************)
(* C23: item and payment numbering.                                        *)
(***************************************************************************)
\* The rows of a list that carry one order's id, in list order.
RowsOf(rows, id) == SelectSeq(rows, LAMBDA r : r.order_id = id)

IdsIn(rows) == {rows[j].order_id : j \in DOMAIN rows}

\* The rows of every order are numbered 1..n in field, with 1 <= n <= most.
Numbered(rows, field, most) ==
    \A id \in IdsIn(rows) :
       LET own == RowsOf(rows, id)
       IN  /\ Len(own) \in 1..most
           /\ \A p \in DOMAIN own : own[p][field] = p

\* C23: every order has between 1 and 5 item rows whose order_item_id values
\* are exactly 1..n, and between 1 and 3 payment rows whose
\* payment_sequential values are exactly 1..m.
C23_Numbering ==
    /\ Numbered(order_items, "order_item_id", 5)
    /\ Numbered(order_payments, "payment_sequential", 3)
    /\ Cardinality(IdsIn(order_items)) = Len(orders)
    /\ Cardinality(IdsIn(order_payments)) = Len(orders)

\* An order with five items and three payments, then one with one of each.
C23_Witness ==
    /\ Len(orders) = 2
    /\ Len(order_items) = 6
    /\ Len(order_payments) = 4
    /\ order_items[5].order_item_id = 5
    /\ order_payments[3].payment_sequential = 3
    /\ order_items[6].order_item_id = 1
    /\ order_payments[4].payment_sequential = 1

(***************************************************************************)
(* C24: the payments of an order split its item total.                     *)
(***************************************************************************)
\* price + freight_value over a list of item rows.
RECURSIVE ItemSum(_)
ItemSum(rows) ==
    IF rows = <<>> THEN 0
    ELSE Head(rows).price + Head(rows).freight_value + ItemSum(Tail(rows))

RECURSIVE PaymentSum(_)
PaymentSum(rows) ==
    IF rows = <<>> THEN 0 ELSE Head(rows).payment_value + PaymentSum(Tail(rows))

Distance(a, b) == IF a >= b THEN a - b ELSE b - a

\* C24: with bad-data injection disabled, all payment rows of one order carry
\* the same payment_value, the order's item total divided by the number of its
\* payments and rounded to the cent, so the order's payments add up to its
\* item total up to at most half a cent per payment.
C24_PaymentsSplitTotal ==
    apply_bad_data = FALSE =>
       \A id \in IdsIn(order_payments) :
          LET own   == RowsOf(order_payments, id)
              total == ItemSum(RowsOf(order_items, id))
          IN  /\ \A p \in DOMAIN own :
                    /\ own[p].payment_value = own[1].payment_value
                    /\ 2 * Distance(Len(own) * own[p].payment_value, total) <= Len(own)
              /\ 2 * Distance(PaymentSum(own), total) <= Len(own)

\* Five items of 15.01 paid in three payments of 25.02, then an order with
\* one item and one payment.
C24_Witness ==
    /\ apply_bad_data = FALSE
    /\ Len(orders) = 2
    /\ Len(order_items) = 6
    /\ Len(order_payments) = 4
    /\ ItemSum(RowsOf(order_items, orders[1].order_id)) = 7505
    /\ \A p \in 1..3 : order_payments[p].payment_value = 2502
    /\ order_payments[4].payment_value = 1501

(***************************************************************************)
(* C25: in a run of the script, whose populations are those of the initial *)
(* load, every change event of every batch and entity kind carries a       *)
(* well-formed generated id in its primary key.                            *)
(***************************************************************************)
C25_EventKeysWellFormed ==
    \A k \in Kinds : \A p \in DOMAIN Stream(k) :
       WellFormedId(Stream(k)[p][PkField(k)])

(***************************************************************************)
(* C26: the population only grows, by the records of the INSERT events.    *)
(***************************************************************************)
EventFields == {"sequence_number", "operation", "change_timestamp"}

\* The record an event carries: the event without the three event fields.
RecordOf(event) == [f \in DOMAIN event \ EventFields |-> event[f]]

\* The records of the INSERT events of a stream, in event order.
RECURSIVE Inserted(_)
Inserted(stream) ==
    IF stream = <<>> THEN <<>>
    ELSE (IF Head(stream).operation = "INSERT" THEN <<RecordOf(Head(stream))>> ELSE <<>>)
         \o Inserted(Tail(stream))

InsertEvents(k) == {p \in DOMAIN Stream(k) : Stream(k)[p].operation = "INSERT"}

\* C26: generate_cdc_batch changes the population only by appending.  After
\* any sequence of batches the population is the initial population followed
\* by the records of the INSERT events in event order; its length is the
\* initial length plus the number of INSERT events; no entry that was there
\* has been modified, removed or moved.
C26_AppendOnly ==
    \A k \in Kinds :
       /\ existing_records[k] = initial_records[k] \o Inserted(Stream(k))
       /\ Len(existing_records[k]) = Len(initial_records[k]) + Cardinality(InsertEvents(k))
       /\ \A p \in DOMAIN initial_records[k] :
             existing_records[k][p] = initial_records[k][p]

\* In the second batch, after an UPDATE that changed its copy, a DELETE and
\* an INSERT: the initial record is still the population's first entry.
C26_Witness ==
    \E k \in Kinds :
       /\ batch = 1
       /\ Len(initial_records[k]) = 1
       /\ Len(existing_records[k]) = 2
       /\ \E p \in DOMAIN Stream(k) :
             /\ Stream(k)[p].operation = "UPDATE"
             /\ RecordOf(Stream(k)[p]) # initial_records[k][1]
             /\ Stream(k)[p][PkField(k)] = initial_records[k][1][PkField(k)]
       /\ \E p \in DOMAIN Stream(k) :
             /\ Stream(k)[p].operation = "DELETE"
             /\ RecordOf(Stream(k)[p]) = initial_records[k][1]
       /\ \E p \in DOMAIN Stream(k) : Stream(k)[p].operation = "INSERT"

(***************************************************************************)
(* C27: UPDATE and DELETE name known keys.                                 *)
(***************************************************************************)
InitialKeys(k) == {initial_records[k][p][PkField(k)] : p \in DOMAIN initial_records[k]}

\* Event p of kind k's stream follows an INSERT of its key that has a
\* strictly smaller sequence_number.
InsertedBefore(k, p) ==
    \E q \in DOMAIN Stream(k) :
       /\ Stream(k)[q].operation = "INSERT"
       /\ Stream(k)[q][PkField(k)] = Stream(k)[p][PkField(k)]
       /\ Stream(k)[q].sequence_number < Stream(k)[p].sequence_number
       /\ q < p

\* C27: in each entity kind's event stream over a run, every UPDATE or DELETE
\* event carries the primary key of a record of the initial population or of
\* an INSERT event with a strictly smaller sequence_number in the same
\* stream; no UPDATE or DELETE comes before the INSERT of its key.
C27_KnownKeys ==
    \A k \in Kinds : \A p \in DOMAIN Stream(k) :
       Stream(k)[p].operation \in {"UPDATE", "DELETE"}
          => \/ Stream(k)[p][PkField(k)] \in InitialKeys(k)
             \/ InsertedBefore(k, p)

\* A key INSERTed in the first batch is UPDATEd and then DELETEd in the second.
C27_Witness ==
    \E k \in Kinds :
       /\ Len(returned[k]) = 2
       /\ Len(returned[k][2]) = 2
       /\ returned[k][2][1].operation = "UPDATE"
       /\ returned[k][2][2].operation = "DELETE"
       /\ returned[k][2][1][PkField(k)] \notin InitialKeys(k)
       /\ returned[k][2][2][PkField(k)] \notin InitialKeys(k)
       /\ \E q \in DOMAIN returned[k][1] :
             /\ returned[k][1][q].operation = "INSERT"
             /\ returned[k][1][q][PkField(k)] = returned[k][2][1][PkField(k)]
             /\ returned[k][1][q][PkField(k)] = returned[k][2][2][PkField(k)]

(***************************************************************************)
(* C28: INSERT keys are new.                                               *)
(***************************************************************************)
\* The primary keys of the population just before event p of kind k's stream:
\* the initial keys and those INSERTed by the events before p.
KeysBefore(k, p) ==
    InitialKeys(k) \cup {Stream(k)[q][PkField(k)] :
                            q \in {x \in 1..(p - 1) : Stream(k)[x].operation = "INSERT"}}

\* C28: with generate_uuid never repeating a value, every INSERT event of
\* customers, products and sellers carries a primary key that was not in the
\* population before its change index: no key is INSERTed twice in a run and
\* no INSERT reuses the key of a record of the initial load.
C28_InsertKeysNew ==
    \A k \in Kinds : \A p \in DOMAIN Stream(k) :
       Stream(k)[p].operation = "INSERT"
          => /\ Stream(k)[p][PkField(k)] \notin KeysBefore(k, p)
             /\ \A r \in DOMAIN initial_records[k] :
                   initial_records[k][r][PkField(k)] # Stream(k)[p][PkField(k)]
             /\ \A q \in DOMAIN Stream(k) :
                   (q # p /\ Stream(k)[q].operation = "INSERT")
                      => Stream(k)[q][PkField(k)] # Stream(k)[p][PkField(k)]

\* An initial record with a generated key, then two INSERTs in each of two
\* batches.
C28_Witness ==
    \E k \in Kinds :
       /\ Len(initial_records[k]) = 1
       /\ WellFormedId(initial_records[k][1][PkField(k)])
       /\ Len(returned[k]) = 2
       /\ Cardinality(InsertEvents(k)) = 4
       /\ Len(existing_records[k]) = 5

(***************************************************************************)
(* The Spark generator: generate_cdc_batches and the volume it writes to.  *)
(***************************************************************************)
\* The state of the data_generator script, which the Spark generator leaves
\* alone.
scriptVars == <<CDC_CHANGES_RANGE, entities, existing_records, uuid_count, pc, batch,
                changes_count, call, i, changes, operation_roll, zip_prefix,
                returned, files, probe, base_time, drawn, cdc_calls, bad, loadVars>>

\* The data_generator script is not running.
NoScriptRun ==
    /\ InitControl
    /\ NoInitialLoad
    /\ pc = "done"
    /\ CDC_CHANGES_RANGE = <<1, MaxChanges>>
    /\ entities = DriverEntities
    /\ existing_records = [e \in Kinds |-> <<>>]
    /\ initial_records = existing_records
    /\ uuid_count = 0

\* PATHS: the directory of each entity on the volume.
PATHS == [e \in {"customers", "orders", "order_items", "order_payments"} |->
             <<"cdc", e>>]

Min(x, y) == IF x <= y THEN x ELSE y
Max(x, y) == IF x >= y THEN x ELSE y

\* with_sequence: row_number() over one window numbers the n rows 1..n, and
\* sequenceNum = start_seq + _rn - 1.  The column, in row order.
with_sequence(n, start_seq) == [rn \in 1..n |-> start_seq + rn - 1]

\* The statements of one batch, in the order of the code: batch 0 sequences
\* its four DataFrames and then writes them; a later batch writes each
\* DataFrame as soon as it is sequenced.
Program(batch_id) ==
    IF batch_id = 0
    THEN <<[op |-> "sequence", entity |-> "customers"],
           [op |-> "sequence", entity |-> "orders"],
           [op |-> "sequence", entity |-> "order_items"],
           [op |-> "sequence", entity |-> "order_payments"],
           [op |-> "write", entity |-> "customers"],
           [op |-> "write", entity |-> "orders"],
           [op |-> "write", entity |-> "order_items"],
           [op |-> "write", entity |-> "order_payments"]>>
    ELSE <<[op |-> "sequence", entity |-> "customers"],
           [op |-> "write", entity |-> "customers"],
           [op |-> "sequence", entity |-> "orders"],
           [op |-> "write", entity |-> "orders"],
           [op |-> "sequence", entity |-> "order_items"],
           [op |-> "write", entity |-> "order_items"],
           [op |-> "sequence", entity |-> "order_payments"],
           [op |-> "write", entity |-> "order_payments"]>>

\* max(1, int(len * update_frac)), update_frac in hundredths.
NumUpdated(len, update_frac) == Max(1, (len * update_frac) \div 100)

\* max(1, int(num_orders * 0.1))
NumInserted(num) == Max(1, (num * 10) \div 100)

\* The row counts one evaluation of an entity's DataFrame can have.  The
\* customers and orders DataFrames have as many rows as spark.range(num) or
\* the id list they are built from.  gen_items explodes every order into
\* 1..max_items rows and gen_payments into 1..2 rows, as the hash of the
\* order_id decides: the fewest and the most rows are taken.
RowCounts(entity, batch_id, a, customers_len, orders_len, order_rows) ==
    CASE entity = "customers" ->
           IF batch_id = 0 THEN {a.num_customers}
           ELSE {Min(customers_len, NumUpdated(customers_len, a.update_frac))}
      [] entity = "orders" ->
           IF batch_id = 0 THEN {a.num_orders}
           ELSE {Min(orders_len, NumUpdated(orders_len, a.update_frac))
                    + NumInserted(a.num_orders)}
      [] entity = "order_items" -> {order_rows, order_rows * a.max_items_per_order}
      [] entity = "order_payments" -> {order_rows, order_rows * 2}

\* The row counts a further evaluation of a DataFrame can have, when an
\* earlier one had `counted` rows.  No DataFrame is cached, so each action
\* (count, collect, write) evaluates it anew.  The rows of items and payments
\* follow from the order_id, which is uuid(), a non-deterministic expression:
\* a runtime that draws it again for a new evaluation gives other ids and so
\* another number of rows; one that keeps its seed gives the same rows.
Reevaluated(entity, counted, choices) ==
    IF entity \in {"order_items", "order_payments"} THEN choices ELSE {counted}

\* The files of a directory of the volume.
Under(vol, dir) ==
    {f \in vol : Len(f.path) > Len(dir) /\ SubSeq(f.path, 1, Len(dir)) = dir}

Staging(target_dir) == target_dir \o <<"_staging">>

\* Variant: every file of the staging directory counts as a part file.
PartFilesAny(vol, staging) == Under(vol, staging)

\* [f.path for f in dbutils.fs.ls(staging) if f.path.endswith(".csv")]
PartFiles(vol, staging) ==
    {f \in Under(vol, staging) : f.path[Len(f.path)] = "part-00000.csv"}

\* What the calls of write_single_csv_to_volume can do: the CSV write leaves
\* a part file, leaves none, or raises; rm and mv do their work or raise.
Reliable == [staging |-> {"part"}, rm |-> {"done"}, mv |-> {"done"},
             rm_staging |-> {"done"}]
Unreliable == [staging |-> {"part", "no_part", "raises"}, rm |-> {"done", "raises"},
               mv |-> {"done", "raises"}, rm_staging |-> {"done", "raises"}]

Entities == DOMAIN PATHS

\* The arguments generate_cdc_batches is called with.
SparkArgs ==
    [num_customers : {1, 2}, num_orders : {1, 2}, max_items_per_order : {2},
     n_batches : {1, MaxBatches}, update_frac : {10, 100}]

InitSpark ==
    /\ NoScriptRun
    /\ args \in SparkArgs
    /\ spark_pc = "run"
    /\ spark_seq = 1
    /\ spark_b = 0
    /\ step = 1
    /\ frames = [e \in Entities |-> [start_seq |-> 0, counted |-> 0]]
    /\ new_customer_ids = 0
    /\ order_ids = 0
    /\ written = <<>>
    /\ volume = {}
    /\ volume_before = {}
    /\ wcall = <<>>
    /\ wpc = "idle"

\* df = with_sequence(df, seq, cols); seq += df.count()
\* and, for the customers of batch 0, the collect() into new_customer_ids.
Sequence ==
    /\ spark_pc = "run"
    /\ Program(spark_b)[step].op = "sequence"
    /\ LET entity == Program(spark_b)[step].entity
       IN  /\ \E n \in RowCounts(entity, spark_b, args, new_customer_ids, order_ids,
                                  frames["orders"].counted) :
                 /\ frames' = [frames EXCEPT
                                  ![entity] = [start_seq |-> spark_seq, counted |-> n]]
                 /\ spark_seq' = spark_seq + n
                 /\ new_customer_ids' =
                       IF spark_b = 0 /\ entity = "customers" THEN n
                       ELSE new_customer_ids
    /\ step' = step + 1
    /\ UNCHANGED <<args, spark_pc, spark_b, order_ids, written, volume,
                   volume_before, wcall, wpc, scriptVars>>

\* write_single_csv_to_volume(df, PATHS[entity], name) is called.
CallWrite ==
    /\ spark_pc = "run"
    /\ Program(spark_b)[step].op = "write"
    /\ LET entity == Program(spark_b)[step].entity
       IN  wcall' = [entity     |-> entity,
                     target_dir |-> PATHS[entity],
                     final_name |-> <<entity, spark_b>>,
                     start_seq  |-> frames[entity].start_seq,
                     counted    |-> frames[entity].counted,
                     choices    |-> RowCounts(entity, spark_b, args, new_customer_ids,
                                              order_ids, frames["orders"].counted),
                     data       |-> <<>>]
    /\ volume_before' = volume
    /\ wpc' = "staging"
    /\ spark_pc' = "writing"
    /\ UNCHANGED <<args, spark_seq, spark_b, step, frames, new_customer_ids,
                   order_ids, written, volume, scriptVars>>

\* ensure_dir(target_dir), then df.coalesce(1).write...csv(staging): the
\* DataFrame is evaluated and its rows go to one part file next to the
\* markers of the write.
WriteStaging(O) ==
    /\ wpc = "staging"
    /\ LET staging == Staging(wcall.target_dir)
           marker  == [path |-> staging \o <<"_SUCCESS">>, data |-> <<>>]
       IN  \E o \in O.staging :
           \E n \in Reevaluated(wcall.entity, wcall.counted, wcall.choices) :
              LET data == with_sequence(n, wcall.start_seq)
              IN  CASE o = "part" ->
                         /\ volume' = volume \cup
                               {marker, [path |-> staging \o <<"part-00000.csv">>,
                                         data |-> data]}
                         /\ wcall' = [wcall EXCEPT !.data = data]
                         /\ wpc' = "ls"
                    [] o = "no_part" ->
                         /\ volume' = volume \cup {marker}
                         /\ wcall' = [wcall EXCEPT !.data = data]
                         /\ wpc' = "ls"
                    [] o = "raises" ->
                         /\ wpc' = "raised"
                         /\ UNCHANGED <<volume, wcall>>
    /\ UNCHANGED <<args, spark_pc, spark_seq, spark_b, step, frames,
                   new_customer_ids, order_ids, written, volume_before, scriptVars>>

\* part_files = [...]; if not part_files: raise RuntimeError(...)
ListParts ==
    /\ wpc = "ls"
    /\ wpc' = IF PartFiles(volume, Staging(wcall.target_dir)) = {}
              THEN "no_part_file" ELSE "rm_dest"
    /\ UNCHANGED <<args, spark_pc, spark_seq, spark_b, step, frames,
                   new_customer_ids, order_ids, written, volume, volume_before,
                   wcall, scriptVars>>

Dest(c) == c.target_dir \o <<c.final_name>>

\* try: dbutils.fs.rm(dest) except: pass
RemoveDest(O) ==
    /\ wpc = "rm_dest"
    /\ \E o \in O.rm :
          volume' = IF o = "done" THEN {f \in volume : f.path # Dest(wcall)}
                    ELSE volume
    /\ wpc' = "mv"
    /\ UNCHANGED <<args, spark_pc, spark_seq, spark_b, step, frames,
                   new_customer_ids, order_ids, written, volume_before, wcall,
                   scriptVars>>

\* dbutils.fs.mv(part_files[0], dest)
Move(O) ==
    /\ wpc = "mv"
    /\ \E o \in O.mv :
          IF o = "done"
          THEN /\ \E part \in PartFiles(volume, Staging(wcall.target_dir)) :
                     volume' = {f \in volume : f.path \notin {part.path, Dest(wcall)}}
                                  \cup {[path |-> Dest(wcall), data |-> part.data]}
               /\ wpc' = "rm_staging"
          ELSE /\ wpc' = "raised"
               /\ UNCHANGED volume
    /\ UNCHANGED <<args, spark_pc, spark_seq, spark_b, step, frames,
                   new_customer_ids, order_ids, written, volume_before, wcall,
                   scriptVars>>

\* dbutils.fs.rm(staging, recurse=True)
RemoveStaging(O) ==
    /\ wpc = "rm_staging"
    /\ \E o \in O.rm_staging :
          IF o = "done"
          THEN /\ volume' = volume \ Under(volume, Staging(wcall.target_dir))
               /\ wpc' = "returned"
          ELSE /\ wpc' = "raised"
               /\ UNCHANGED volume
    /\ UNCHANGED <<args, spark_pc, spark_seq, spark_b, step, frames,
                   new_customer_ids, order_ids, written, volume_before, wcall,
                   scriptVars>>

\* write_single_csv_to_volume has returned: the next statement, the next
\* batch of `for b in range(1, n_batches)`, or the end.  order_ids gets the
\* ids of ord0 at the end of batch 0 and those of insO after a later batch's
\* orders are written.
Returned ==
    /\ spark_pc = "writing"
    /\ wpc = "returned"
    /\ wpc' = "idle"
    /\ written' = Append(written, [entity |-> wcall.entity, batch_id |-> spark_b,
                                   sequenceNum |-> wcall.data])
    /\ order_ids' =
          CASE spark_b = 0 /\ step = Len(Program(spark_b)) -> args.num_orders
            [] spark_b > 0 /\ wcall.entity = "orders" ->
                  order_ids + NumInserted(args.num_orders)
            [] OTHER -> order_ids
    /\ IF step < Len(Program(spark_b))
       THEN /\ step' = step + 1
            /\ spark_pc' = "run"
            /\ UNCHANGED spark_b
       ELSE /\ step' = 1
            /\ spark_b' = spark_b + 1
            /\ spark_pc' = IF spark_b + 1 < args.n_batches THEN "run" ELSE "done"
    /\ UNCHANGED <<args, spark_seq, frames, new_customer_ids, volume, volume_before,
                   wcall, scriptVars>>

NextSpark ==
    \/ Sequence
    \/ CallWrite
    \/ WriteStaging(Reliable)
    \/ ListParts
    \/ RemoveDest(Reliable)
    \/ Move(Reliable)
    \/ RemoveStaging(Reliable)
    \/ Returned

SpecSpark == InitSpark /\ [][NextSpark]_vars

(***************************************************************************)
(* C29: sequenceNum comes from one running counter that starts at 1.  Each *)
(* dataset written carries the contiguous values start..start+n-1 for its  *)
(* n rows and the counter has advanced by n, so over all entities and      *)
(* batches of a run the values written are pairwise distinct, form one     *)
(* contiguous range, and those of a later-written dataset are larger than  *)
(* those of every earlier one.                                             *)
(***************************************************************************)
\* The sequenceNum values written so far, dataset after dataset.
RECURSIVE SequenceNums(_)
SequenceNums(datasets) ==
    IF datasets = <<>> THEN <<>>
    ELSE Head(datasets).sequenceNum \o SequenceNums(Tail(datasets))

C29_OneRunningCounter ==
    LET nums == SequenceNums(written)
    IN  /\ \A p \in DOMAIN nums : nums[p] = p
        /\ spark_pc = "done" => spark_seq = Len(nums) + 1

(***************************************************************************)
(* write_single_csv_to_volume on its own: any entity, a destination that   *)
(* exists or not, and calls that can fail.                                 *)
(***************************************************************************)
\* The calls: the DataFrame has 0..2 rows, numbered from start_seq.
WriteCalls ==
    {[entity     |-> e,
      target_dir |-> PATHS[e],
      final_name |-> <<e, 0>>,
      start_seq  |-> s,
      counted    |-> n,
      choices    |-> {n},
      data       |-> <<>>] : e \in Entities, s \in {1, 5}, n \in 0..2}

\* What the volume holds before the call: nothing, the file of another
\* batch, an earlier file under the destination's name, or both.
VolumesFor(c) ==
    LET old   == [path |-> Dest(c), data |-> <<7, 8, 9>>]
        other == [path |-> c.target_dir \o <<<<c.entity, 1>>>>, data |-> <<4>>]
    IN  {{}, {other}, {old}, {old, other}}

InitVolume ==
    /\ NoScriptRun
    /\ args = [num_customers |-> 0, num_orders |-> 0, max_items_per_order |-> 0,
               n_batches |-> 0, update_frac |-> 0]
    /\ spark_pc = "idle"
    /\ spark_seq = 1
    /\ spark_b = 0
    /\ step = 1
    /\ frames = <<>>
    /\ new_customer_ids = 0
    /\ order_ids = 0
    /\ written = <<>>
    /\ wcall \in WriteCalls
    /\ volume \in VolumesFor(wcall)
    /\ volume_before = volume
    /\ wpc = "staging"

NextVolume ==
    \/ WriteStaging(Unreliable)
    \/ ListParts
    \/ RemoveDest(Unreliable)
    \/ Move(Unreliable)
    \/ RemoveStaging(Unreliable)

SpecVolume == InitVolume /\ [][NextVolume]_vars

(***************************************************************************)
(* C30: the destination on the two ways out of the function.               *)
(***************************************************************************)
\* The files a volume holds under one path.
FilesAt(vol, path) == {f \in vol : f.path = path}

\* C30: if no .csv part file is found in the staging directory, the
\* RuntimeError is raised before the destination is removed or replaced: a
\* destination file that existed is left as it was.  When the function
\* returns, the destination holds the new file and the staging directory has
\* been removed.
C30_DestinationKeptOrReplaced ==
    /\ wpc = "no_part_file" =>
          /\ FilesAt(volume, Dest(wcall)) = FilesAt(volume_before, Dest(wcall))
          /\ volume \ Under(volume, Staging(wcall.target_dir)) = volume_before
    /\ wpc = "returned" =>
          /\ FilesAt(volume, Dest(wcall)) = {[path |-> Dest(wcall), data |-> wcall.data]}
          /\ Under(volume, Staging(wcall.target_dir)) = {}

\* The write left no part file where a destination file existed: the error
\* is raised and the old file is still there.
C30_Witness ==
    /\ wpc = "no_part_file"
    /\ wcall.counted = 2
    /\ \E f \in volume : f.path = Dest(wcall) /\ f.data = <<7, 8, 9>>
    /\ \E f \in volume_before : f.path = Dest(wcall)

====
